---- MODULE Spec2Model ----
(***************************************************************************)
(* A model of the wdm download engine (src-tauri/src): the job ledger      *)
(* (persistence.rs), the job handle and settings (state.rs), the chunked   *)
(* and single-stream transferors (downloader.rs), the control surface     *)
(* with its supervisor tasks (commands.rs) and the start-up task (lib.rs). *)
(*                                                                         *)
(* Tasks are asynchronous: one action is what a task does between two      *)
(* suspension points (a network read, a sleep, a join).  A command handler *)
(* is one action.                                                          *)
(***************************************************************************)
EXTENDS Integers, Sequences, FiniteSets, TLC

\* ------------------------------------------------------------------ bounds
\* Number of transferor runs (start or resume-interrupted) in one behaviour.
MaxRuns == 2
\* Largest size handed to start_download in the life-cycle specifications.
MaxSize == 3
\* Largest buffer one stream read delivers.
MaxBuf == 1
\* Failures of the network (a request or a stream that errs) in one behaviour.
MaxFaults == 1
\* Calls of cancel_download in one behaviour.
MaxCancels == 1
\* Largest connection count of the settings in the life-cycle specifications.
MaxConn == 2
\* Largest total size handed to the segment planner in SpecPlan.
MaxPlanSize == 40

\* ------------------------------------------------------- program constants
\* set_connections accepts 1..32.
MinConnections == 1
MaxConnections == 32

\* u64 arithmetic.  TLC's integers are 32 bits wide, so the word is scaled:
\* U64Modulus stands for 2^64.  Every quantity of the model that is not the
\* result of a wrap stays far below it, and a wrap lands on the same side
\* of every comparison the code makes as it does with the full word.
U64Modulus == 65536

WrapAdd(a, b) == (a + b) % U64Modulus
WrapSub(a, b) == (a - b + U64Modulus) % U64Modulus
WrapMul(a, b) == (a * b) % U64Modulus

Min(a, b) == IF a < b THEN a ELSE b

RECURSIVE SumSeq(_)
SumSeq(s) == IF s = <<>> THEN 0 ELSE Head(s) + SumSeq(Tail(s))

RECURSIVE Concat(_)
Concat(ss) == IF ss = <<>> THEN <<>> ELSE Head(ss) \o Concat(Tail(ss))

\* ------------------------------------------------------------------- text
\* Messages are sequences of characters, so that str::contains is a search.
UpperChars == <<"A","B","C","D","E","F","G","H","I","J","K","L","M",
                "N","O","P","Q","R","S","T","U","V","W","X","Y","Z">>
LowerChars == <<"a","b","c","d","e","f","g","h","i","j","k","l","m",
                "n","o","p","q","r","s","t","u","v","w","x","y","z">>

LowerChar(c) ==
    IF \E k \in 1..Len(UpperChars) : UpperChars[k] = c
    THEN LowerChars[CHOOSE k \in 1..Len(UpperChars) : UpperChars[k] = c]
    ELSE c

ToLowercase(s) == [k \in 1..Len(s) |-> LowerChar(s[k])]

\* str::contains: pat occurs in s as a contiguous substring, byte for byte.
Contains(s, pat) ==
    \E k \in 1..(Len(s) - Len(pat) + 1) : SubSeq(s, k, k + Len(pat) - 1) = pat

ContainsIgnoreCase(s, pat) == Contains(ToLowercase(s), ToLowercase(pat))

Digit(d) == <<"0","1","2","3","4","5","6","7","8","9">>[d + 1]

cancelled_lit == <<"c","a","n","c","e","l","l","e","d">>

\* The URLs a job may be started with (scheme and host left out).
Urls == {"plain", "upper", "lower"}
UrlText(u) ==
    CASE u = "plain" -> <<"h","/","a",".","i","s","o">>
      [] u = "upper" -> <<"h","/","C","a","n","c","e","l","l","e","d",".","i","s","o">>
      [] OTHER       -> <<"h","/","c","a","n","c","e","l","l","e","d",".","i","s","o">>

\* reqwest's Display of a failed send names the URL.
SendErrorText(u) ==
    <<"e","r","r","o","r"," ","s","e","n","d","i","n","g"," ","r","e","q","u","e","s","t",
      " ","f","o","r"," ","u","r","l"," ","(">> \o UrlText(u) \o <<")">>

\* A transferor or worker result: Ok, or an Err of one of the format! sites.
OkResult == [ok |-> TRUE, kind |-> "Ok", chunk |-> 0, url |-> "plain"]
NoResult == [ok |-> FALSE, kind |-> "none", chunk |-> 0, url |-> "plain"]
Err(kind, chunk, u) == [ok |-> FALSE, kind |-> kind, chunk |-> chunk, url |-> u]

ChunkPrefix(c) == <<"C","h","u","n","k"," ">> \o <<Digit(c)>>

\* The message of an Err, as the format! call sites build it.
ErrText(res) ==
    CASE res.kind = "Cancelled" ->
            <<"C","a","n","c","e","l","l","e","d">>
      [] res.kind = "DownloadCancelled" ->
            <<"D","o","w","n","l","o","a","d"," ">> \o cancelled_lit
      [] res.kind = "ChunkRequestFailed" ->
            ChunkPrefix(res.chunk)
              \o <<" ","r","e","q","u","e","s","t"," ","f","a","i","l","e","d",":"," ">>
              \o SendErrorText(res.url)
      [] res.kind = "ChunkHttpError" ->
            ChunkPrefix(res.chunk)
              \o <<" ","H","T","T","P"," ","e","r","r","o","r",":"," ","5","0","3">>
      [] res.kind = "OpenChunkFailed" ->
            <<"F","a","i","l","e","d"," ","t","o"," ","o","p","e","n"," ",
              "c","h","u","n","k"," ","f","i","l","e">>
      [] res.kind = "StreamError" ->
            <<"S","t","r","e","a","m"," ","e","r","r","o","r",":"," ",
              "b","o","d","y">>
      [] res.kind = "ReadChunkFailed" ->
            <<"F","a","i","l","e","d"," ","t","o"," ","r","e","a","d"," ",
              "c","h","u","n","k">>
      [] res.kind = "RequestFailed" ->
            <<"R","e","q","u","e","s","t"," ","f","a","i","l","e","d",":"," ">>
              \o SendErrorText(res.url)
      [] res.kind = "HttpError" ->
            <<"H","T","T","P"," ","e","r","r","o","r",":"," ","5","0","3">>
      [] OTHER -> <<>>

\* ------------------------------------------------------------ the planner
\* DownloadRecord::new, lines 136-152: the segment boundaries.  A debug
\* build panics on u64 underflow, a release build wraps.
ChunkStart(i, chunk_size) == WrapMul(i, chunk_size)

ChunkEnd(i, total_size, num_connections, chunk_size) ==
    IF i = num_connections - 1
    THEN WrapSub(total_size, 1)
    ELSE WrapSub(WrapMul(i + 1, chunk_size), 1)

\* Some subtraction of the loop underflows.
PlanUnderflows(total_size, num_connections) ==
    LET chunk_size == total_size \div num_connections
    IN  \E i \in 0..(num_connections - 1) :
            IF i = num_connections - 1
            THEN total_size < 1
            ELSE (i + 1) * chunk_size < 1

NewChunks(total_size, num_connections) ==
    LET chunk_size == total_size \div num_connections
    IN  [k \in 1..num_connections |->
            [id |-> k - 1,
             start |-> ChunkStart(k - 1, chunk_size),
             end |-> ChunkEnd(k - 1, total_size, num_connections, chunk_size),
             downloaded |-> 0]]

\* download_chunked, lines 20-41: the same ranges, computed again for a
\* fresh job, or the ranges of the record for a resumed one.
PlanChunks(total_size, num_connections, existing_chunks) ==
    IF existing_chunks # <<>>
    THEN existing_chunks
    ELSE NewChunks(total_size, num_connections)

\* end - start + 1, as lines 56 and 129 compute it.
ChunkTotal(c) == WrapAdd(WrapSub(c.end, c.start), 1)

\* DownloadRecord::total_downloaded.
total_downloaded(rec) == SumSeq([k \in 1..Len(rec.chunks) |-> rec.chunks[k].downloaded])

\* The ids left in the order they are in.
SortIdsAsGiven(s) == s
\* Vec::sort_by_key on distinct segment ids.
SortIds(s) ==
    LET ids == {s[k] : k \in 1..Len(s)}
    IN  [k \in 1..Cardinality(ids) |->
            CHOOSE x \in ids : Cardinality({y \in ids : y < x}) = k - 1]

\* -------------------------------------------------------------- the world
\* The remote resource: distinct non-zero bytes, so that order and holes
\* show.  A job started with size 0 (unknown) has UnknownLen bytes.
UnknownLen == 2
RemoteLen(total_size) == IF total_size = 0 THEN UnknownLen ELSE total_size
Remote(total_size) == [k \in 1..RemoteLen(total_size) |-> k]

\* A write of data at byte offset pos of a file (a seek past the end leaves
\* a hole of zeros).
WriteAt(f, pos, data) ==
    LET len == IF Len(f) > pos + Len(data) THEN Len(f) ELSE pos + Len(data)
    IN  [k \in 1..len |->
            IF k > pos /\ k <= pos + Len(data) THEN data[k - pos]
            ELSE IF k <= Len(f) THEN f[k] ELSE 0]

Filenames == {"f"}
Timestamps == {0}
\* format!("{}_{}", filename, timestamp_millis)
DownloadId(filename, now) == <<filename, now>>

Runs == 1..MaxRuns

VARIABLES
    calls,       \* how often the window has called cancel_download, and the
                 \* last call that was answered with an Err
    planner,     \* SpecPlan: the planner's input and output
    disk,        \* SpecSave: the ledger file while save() writes it;
                 \* SpecSettings: the settings file
    video,       \* SpecVideo: one video download: handle, subprocess, task,
                 \* record status, events
    boot,        \* the start-up task of run(): its stage, and what it loaded
    pace,        \* SpecPace: one worker's pacing loop against the clock
    server,      \* mode "range": Range requests are honoured; "full": ignored
                 \* (200); faults: the failures the network still has in store
    settings,    \* Settings: connections and speed_limit (0: unlimited)
    history,     \* DownloadHistory.downloads: id -> DownloadRecord
    downloads,   \* AppState.downloads: id -> run whose handle is registered
    nruns,       \* supervisor tasks spawned so far
    run,         \* per run: the supervisor task and its transferor
    handle,      \* per run: DownloadHandle
    worker,      \* per run: the download_chunk tasks, by plan position
    reporter,    \* per run: the progress reporter task
    single,      \* per run: download_single's locals
    temp,        \* id -> (segment id -> bytes): the .wdm_temp_<id> directories
    files,       \* path -> bytes: the destination files
    events,      \* per run: events emitted so far
    ghost        \* per run: history of the run, for the properties

vars == <<calls, planner, disk, video, boot, pace, server, settings, history, downloads, nruns,
          run, handle, worker, reporter, single, temp, files, events, ghost>>

lifeVars == <<calls, disk, video, boot, pace, server, settings, history, downloads, nruns, run,
              handle, worker, reporter, single, temp, files, events, ghost>>

\* ----------------------------------------------------------------- ledger
Terminal == {"Completed", "Cancelled", "Failed"}

\* DownloadRecord::new.
NewRecord(id, url, filename, total_size, resumable, num_connections) ==
    [id |-> id, url |-> url, filename |-> filename, file_path |-> filename,
     total_size |-> total_size, resumable |-> resumable, status |-> "Pending",
     num_connections |-> num_connections,
     chunks |-> NewChunks(total_size, num_connections)]

\* DownloadHistory::add_download: HashMap::insert.
add_download(h, rec) ==
    [x \in DOMAIN h \cup {rec.id} |-> IF x = rec.id THEN rec ELSE h[x]]

\* DownloadHistory::update_download with a closure that sets the status.
update_status(h, id, st) ==
    IF id \in DOMAIN h THEN [h EXCEPT ![id].status = st] ELSE h

\* DownloadHistory::update_chunk_progress.
update_chunk_progress(h, id, chunk_id, n) ==
    IF id \in DOMAIN h
    THEN [h EXCEPT ![id].chunks =
            [k \in 1..Len(@) |->
                IF @[k].id = chunk_id
                   /\ \A j \in 1..(k - 1) : @[j].id # chunk_id
                THEN [@[k] EXCEPT !.downloaded = n] ELSE @[k]]]
    ELSE h

\* HashMap::insert / HashMap::remove on the active map.
MapInsert(m, id, v) == [x \in DOMAIN m \cup {id} |-> IF x = id THEN v ELSE m[x]]
MapRemove(m, id) == [x \in DOMAIN m \ {id} |-> m[x]]

\* ------------------------------------------------------------ task records
NoRun == [id |-> <<>>, url |-> "plain", path |-> "", kind |-> "none", total_size |-> 0,
          num_connections |-> 0, existing |-> <<>>, spc |-> "unused", tpc |-> "idle",
          plan |-> <<>>, handles |-> <<>>, k |-> 1, chunk_paths |-> <<>>,
          result |-> NoResult]
NoHandle == [cancelled |-> FALSE, paused |-> FALSE, chunk_downloaded |-> <<>>,
             speed_limit |-> 0]
NoReporter == [pc |-> "none"]
NoSingle == [sent |-> 0, held |-> 0]
\* events: how many "cancelled" progress events, download-error and
\* download-complete events there were, and the status of the reporter's
\* last download-progress event (its speed is 0.0 exactly when the status
\* is "paused": one load of the flag decides both, lines 71 and 86-93).
NoEvents == [cancelled |-> 0, error |-> 0, complete |-> 0, progress |-> "none"]
NoGhost == [cancelMid |-> FALSE, cancelFiles |-> {}, resumeSound |-> FALSE]

NewWorker(c) ==
    [pc |-> "init", id |-> c.id, start |-> c.start, end |-> c.end,
     already |-> c.downloaded, pos |-> 0, next |-> 0, stop |-> 0, held |-> 0,
     fd |-> "none", res |-> NoResult]
SkippedWorker(c) == [NewWorker(c) EXCEPT !.pc = "skipped"]

\* ------------------------------------------------------------------- Init
NoCall == [op |-> "none", id |-> <<>>]
\* pending: the pause_download / resume_download calls that have released
\* the active map and wait for the ledger's write lock (SpecRace).
NoCalls == [cancels |-> 0, rejected |-> NoCall, pending |-> {}]

\* No file is being written or read.
NoDisk == [stage |-> "off"]

\* No video download is modelled.
NoVideo == [stage |-> "off"]

\* The start-up task has run (lib.rs, setup).
Booted == [stage |-> "done", loaded |-> <<>>]

LifeInit ==
    /\ calls = NoCalls
    /\ boot = Booted
    /\ disk = NoDisk
    /\ video = NoVideo
    /\ server \in [mode : {"range", "full"}, faults : {MaxFaults}]
    /\ settings \in [connections : 1..MaxConn, speed_limit : {0}]
    /\ history = <<>>
    /\ downloads = <<>>
    /\ nruns = 0
    /\ run = [r \in Runs |-> NoRun]
    /\ handle = [r \in Runs |-> NoHandle]
    /\ worker = [r \in Runs |-> <<>>]
    /\ reporter = [r \in Runs |-> NoReporter]
    /\ single = [r \in Runs |-> NoSingle]
    /\ temp = <<>>
    /\ files = <<>>
    /\ events = [r \in Runs |-> NoEvents]
    /\ ghost = [r \in Runs |-> NoGhost]

Init ==
    /\ planner = [stage |-> "off"]
    /\ pace = [stage |-> "off"]
    /\ LifeInit

\* ----------------------------------------------------------- ended tasks
\* A supervisor task that has ended leaves nothing behind but the segment
\* workers it did not wait for (tokio tasks outlive their dropped
\* JoinHandle) and the handle they share.  Its record is dropped when the
\* next task is spawned.
LiveWorker(w) == w.pc \in {"init", "stream", "paused"}
Ended(q) == run[q].spc = "done"

RetiredRun(q) ==
    [NoRun EXCEPT !.id = run[q].id, !.url = run[q].url, !.path = run[q].path,
                  !.kind = run[q].kind, !.total_size = run[q].total_size,
                  !.spc = "retired", !.tpc = "returned"]
RetiredWorkers(q) ==
    [k \in 1..Len(worker[q]) |->
        IF LiveWorker(worker[q][k]) THEN worker[q][k]
        ELSE [worker[q][k] EXCEPT !.res = NoResult]]
RetiredHandle(q) ==
    IF \E k \in 1..Len(worker[q]) : LiveWorker(worker[q][k])
    THEN handle[q] ELSE NoHandle

\* The task records after run r has been spawned with its record rec, its
\* handle h and its ghost g.
Spawn(r, rec, h, g) ==
    /\ run' = [q \in Runs |->
                  IF q = r THEN rec ELSE IF Ended(q) THEN RetiredRun(q) ELSE run[q]]
    /\ handle' = [q \in Runs |->
                  IF q = r THEN h ELSE IF Ended(q) THEN RetiredHandle(q) ELSE handle[q]]
    /\ worker' = [q \in Runs |-> IF Ended(q) THEN RetiredWorkers(q) ELSE worker[q]]
    /\ reporter' = [q \in Runs |-> IF Ended(q) THEN NoReporter ELSE reporter[q]]
    /\ events' = [q \in Runs |-> IF Ended(q) THEN NoEvents ELSE events[q]]
    /\ ghost' = [q \in Runs |->
                  IF q = r THEN g ELSE IF Ended(q) THEN NoGhost ELSE ghost[q]]
    /\ nruns' = r

\* ------------------------------------------------------- control surface
\* A command returns Err before it has touched anything.
Rejected(op, id) ==
    /\ calls' = [calls EXCEPT !.rejected = [op |-> op, id |-> id]]
    /\ UNCHANGED <<planner, disk, video, boot, pace, server, settings, history, downloads,
                   nruns, run, handle, worker, reporter, single, temp, files, events, ghost>>

\* The temp directory of a download, empty when there is none.
DirOf(id) == IF id \in DOMAIN temp THEN temp[id] ELSE <<>>

\* start_download: the record, the handle, the registration and the spawn.
\* DownloadRecord::new runs first: where its arithmetic underflows, a debug
\* build panics there and nothing has happened yet.
start_download(url, filename, size, resumable, now) ==
    /\ nruns < MaxRuns
    /\ \E build \in {"debug", "release"} :
        LET num_connections == settings.connections
            id == DownloadId(filename, now)
            r == nruns + 1
        IN  IF build = "debug" /\ PlanUnderflows(size, num_connections)
            THEN UNCHANGED vars
            ELSE
              /\ history' = add_download(history,
                    NewRecord(id, url, filename, size, resumable, num_connections))
              /\ downloads' = MapInsert(downloads, id, r)
              /\ Spawn(r,
                    [NoRun EXCEPT !.id = id, !.url = url, !.path = filename,
                                  !.kind = IF resumable /\ size > 0
                                           THEN "chunked" ELSE "single",
                                  !.total_size = size,
                                  !.num_connections = num_connections,
                                  !.spc = "begin"],
                    [cancelled |-> FALSE, paused |-> FALSE,
                     chunk_downloaded |-> [k \in 1..num_connections |-> 0],
                     speed_limit |-> settings.speed_limit],
                    NoGhost)
              /\ UNCHANGED <<calls, planner, disk, video, boot, pace, server, settings, single,
                             temp, files>>

\* Every checkpoint of the record is covered by the bytes of its segment file.
CheckpointsWithinFiles(record) ==
    \A k \in 1..Len(record.chunks) :
        LET c == record.chunks[k]
            dir == DirOf(record.id)
        IN  c.downloaded <= (IF c.id \in DOMAIN dir THEN Len(dir[c.id]) ELSE 0)

\* The statuses resume_interrupted_download takes, lines 300-306.
ResumableStatusesAndCancelled == {"Paused", "Failed", "Downloading", "Cancelled"}
ResumableStatuses == {"Paused", "Failed", "Downloading"}

\* resume_interrupted_download taking the connection count from the settings.
resume_interrupted_downloadWithSetting(id) ==
    IF \/ id \notin DOMAIN history
       \/ history[id].status \notin ResumableStatuses
       \/ ~history[id].resumable
    THEN Rejected("resume_interrupted_download", id)
    ELSE
      /\ nruns < MaxRuns
      /\ LET record == history[id]
             r == nruns + 1
         IN  /\ downloads' = MapInsert(downloads, id, r)
             /\ Spawn(r,
                   [NoRun EXCEPT !.id = id, !.url = record.url,
                                 !.path = record.file_path, !.kind = "chunked",
                                 !.total_size = record.total_size,
                                 !.num_connections = settings.connections,
                                 !.existing = record.chunks,
                                 !.spc = "begin"],
                   [cancelled |-> FALSE, paused |-> FALSE,
                    chunk_downloaded |->
                        [k \in 1..Len(record.chunks) |-> record.chunks[k].downloaded],
                    speed_limit |-> settings.speed_limit],
                   [NoGhost EXCEPT !.resumeSound = CheckpointsWithinFiles(record)])
      /\ UNCHANGED <<calls, planner, disk, video, boot, pace, server, settings, history, single,
                     temp, files>>
\* resume_interrupted_download.
resume_interrupted_download(id) ==
    IF \/ id \notin DOMAIN history
       \/ history[id].status \notin ResumableStatuses
       \/ ~history[id].resumable
    THEN Rejected("resume_interrupted_download", id)
    ELSE
      /\ nruns < MaxRuns
      /\ LET record == history[id]
             r == nruns + 1
         IN  /\ downloads' = MapInsert(downloads, id, r)
             /\ Spawn(r,
                   [NoRun EXCEPT !.id = id, !.url = record.url,
                                 !.path = record.file_path, !.kind = "chunked",
                                 !.total_size = record.total_size,
                                 !.num_connections = record.num_connections,
                                 !.existing = record.chunks,
                                 !.spc = "begin"],
                   [cancelled |-> FALSE, paused |-> FALSE,
                    chunk_downloaded |->
                        [k \in 1..Len(record.chunks) |-> record.chunks[k].downloaded],
                    speed_limit |-> settings.speed_limit],
                   [NoGhost EXCEPT !.resumeSound = CheckpointsWithinFiles(record)])
      /\ UNCHANGED <<calls, planner, disk, video, boot, pace, server, settings, history, single,
                     temp, files>>

\* Some worker of run r has not returned while the transferor waits for it.
Transferring(r) ==
    /\ run[r].tpc = "await"
    /\ \E k \in 1..Len(worker[r]) : worker[r][k].pc \in {"init", "stream", "paused"}

\* cancel_download.
cancel_download(id) ==
    IF id \notin DOMAIN downloads THEN Rejected("cancel_download", id)
    ELSE
      /\ calls' = [calls EXCEPT !.cancels = @ + 1]
      /\ LET r == downloads[id]
         IN  /\ handle' = [handle EXCEPT ![r].cancelled = TRUE]
             /\ ghost' =
                   IF ~handle[r].cancelled /\ Transferring(r)
                   THEN [ghost EXCEPT ![r].cancelMid = TRUE,
                                      ![r].cancelFiles = DOMAIN DirOf(run[r].id)]
                   ELSE ghost
      /\ UNCHANGED <<planner, disk, video, boot, pace, server, settings, history, downloads,
                     nruns, run, worker, reporter, single, temp, files, events>>

\* pause_download with the record written before the handle is looked up.
pause_downloadLedgerFirst(id) ==
    /\ history' = update_status(history, id, "Paused")
    /\ IF id \in DOMAIN downloads
       THEN /\ handle' = [handle EXCEPT ![downloads[id]].paused = TRUE]
            /\ UNCHANGED calls
       ELSE /\ calls' = [calls EXCEPT !.rejected = [op |-> "pause_download", id |-> id]]
            /\ UNCHANGED handle
    /\ UNCHANGED <<planner, disk, video, boot, pace, server, settings, downloads, nruns, run,
                   worker, reporter, single, temp, files, events, ghost>>
\* pause_download.
pause_download(id) ==
    IF id \notin DOMAIN downloads THEN Rejected("pause_download", id)
    ELSE
      /\ handle' = [handle EXCEPT ![downloads[id]].paused = TRUE]
      /\ history' = update_status(history, id, "Paused")
      /\ UNCHANGED <<calls, planner, disk, video, boot, pace, server, settings, downloads,
                     nruns, run, worker, reporter, single, temp, files, events, ghost>>

\* resume_download.
resume_download(id) ==
    IF id \notin DOMAIN downloads THEN Rejected("resume_download", id)
    ELSE
      /\ handle' = [handle EXCEPT ![downloads[id]].paused = FALSE]
      /\ history' = update_status(history, id, "Downloading")
      /\ UNCHANGED <<calls, planner, disk, video, boot, pace, server, settings, downloads,
                     nruns, run, worker, reporter, single, temp, files, events, ghost>>

\* pause_download / resume_download up to the release of the active map's
\* read lock (lines 422-429 and 445-452): the flag is stored, the call then
\* waits for the ledger's write lock.
ControlLookup(op, id) ==
    IF id \notin DOMAIN downloads THEN Rejected(op, id)
    ELSE
      /\ calls.pending = {}
      /\ handle' = [handle EXCEPT ![downloads[id]].paused = (op = "pause_download")]
      /\ calls' = [calls EXCEPT !.pending = {[op |-> op, id |-> id]}]
      /\ UNCHANGED <<planner, disk, video, boot, pace, server, settings, history, downloads,
                     nruns, run, worker, reporter, single, temp, files, events, ghost>>

\* The rest of the call (lines 432-436 and 454-458): the status is written
\* whatever the record's status has become.
ControlLedger(c) ==
    /\ c \in calls.pending
    /\ history' = update_status(history, c.id,
                      IF c.op = "pause_download" THEN "Paused" ELSE "Downloading")
    /\ calls' = [calls EXCEPT !.pending = {}]
    /\ UNCHANGED <<planner, disk, video, boot, pace, server, settings, downloads, nruns, run,
                   handle, worker, reporter, single, temp, files, events, ghost>>
\* ------------------------------------------------------------- supervisor
\* The spawned task of start_download / resume_interrupted_download: the
\* record becomes Downloading, then the transferor runs.
SupervisorBegin(r) ==
    /\ run[r].spc = "begin"
    /\ history' = update_status(history, run[r].id, "Downloading")
    /\ run' = [run EXCEPT ![r].spc = "transfer", ![r].tpc = "start"]
    /\ UNCHANGED <<calls, planner, disk, video, boot, pace, server, settings, downloads, nruns,
                   handle, worker, reporter, single, temp, files, events, ghost>>

\* downloads.remove(&id), after the transferor has returned.
SupervisorUnregister(r) ==
    /\ run[r].spc = "transfer"
    /\ run[r].tpc = "returned"
    /\ downloads' = MapRemove(downloads, run[r].id)
    /\ run' = [run EXCEPT ![r].spc = "finish"]
    /\ UNCHANGED <<calls, planner, disk, video, boot, pace, server, settings, history, nruns,
                   handle, worker, reporter, single, temp, files, events, ghost>>

\* The same test on lower-cased text.
IsCancelledErrorIgnoringCase(res) == ContainsIgnoreCase(ErrText(res), cancelled_lit)
\* e.contains("cancelled")
IsCancelledError(res) == Contains(ErrText(res), cancelled_lit)

\* The match on the transferor's result, lines 257-273 and 372-388.
TerminalStatus(res) ==
    IF res.ok THEN "Completed"
    ELSE IF IsCancelledError(res) THEN "Cancelled"
    ELSE "Failed"

\* download-error for every Err.
EmitsDownloadErrorForEveryErr(res) == ~res.ok
\* Lines 276-283 and 391-398: download-error for an Err that is no cancel.
EmitsDownloadError(res) == ~res.ok /\ ~IsCancelledError(res)

SupervisorFinish(r) ==
    /\ run[r].spc = "finish"
    /\ history' = update_status(history, run[r].id, TerminalStatus(run[r].result))
    /\ events' = [events EXCEPT ![r].error =
                     IF EmitsDownloadError(run[r].result) THEN @ + 1 ELSE @]
    /\ run' = [run EXCEPT ![r].spc = "done"]
    /\ UNCHANGED <<calls, planner, disk, video, boot, pace, server, settings, downloads, nruns,
                   handle, worker, reporter, single, temp, files, ghost>>

\* ------------------------------------------------------- chunked transferor
\* A segment that is not spawned: already_downloaded >= chunk_total.
SkipChunk(c) == c.downloaded >= ChunkTotal(c)

\* download_chunked up to the join loop: plan, temp directory, reporter,
\* one worker per unfinished segment (its counter set to already_downloaded).
TransferorStart(r) ==
    /\ run[r].spc = "transfer"
    /\ run[r].kind = "chunked"
    /\ run[r].tpc = "start"
    /\ LET id == run[r].id
           chunks == PlanChunks(run[r].total_size, run[r].num_connections,
                                run[r].existing)
           spawned == SelectSeq(chunks, LAMBDA c : ~SkipChunk(c))
       IN  /\ temp' = IF id \in DOMAIN temp THEN temp ELSE MapInsert(temp, id, <<>>)
           /\ reporter' = [reporter EXCEPT ![r] = [pc |-> "sleep"]]
           /\ worker' = [worker EXCEPT ![r] =
                 [k \in 1..Len(chunks) |->
                     IF SkipChunk(chunks[k]) THEN SkippedWorker(chunks[k])
                     ELSE NewWorker(chunks[k])]]
           /\ handle' = [handle EXCEPT ![r].chunk_downloaded =
                 [j \in 1..Len(@) |->
                     IF \E k \in 1..Len(chunks) :
                           chunks[k].id = j - 1 /\ ~SkipChunk(chunks[k])
                     THEN (CHOOSE c \in {chunks[k] : k \in 1..Len(chunks)} :
                              c.id = j - 1 /\ ~SkipChunk(c)).downloaded
                     ELSE @[j]]]
           /\ run' = [run EXCEPT
                 ![r].plan = chunks,
                 ![r].handles = [k \in 1..Len(spawned) |-> spawned[k].id],
                 ![r].k = 1,
                 ![r].tpc = IF spawned = <<>> THEN "check" ELSE "await"]
    /\ UNCHANGED <<calls, planner, disk, video, boot, pace, server, settings, history,
                   downloads, nruns, single, files, events, ghost>>

\* The worker task of segment id in run r.
WorkerOf(r, id) == CHOOSE k \in 1..Len(worker[r]) : worker[r][k].id = id

\* progress_handle.abort(): the reporter is dropped at its suspension point.
\* abort() only marks the task and returns; a reporter that another thread
\* of the runtime is polling at that moment (pc "run", SpecThreads) runs on
\* to its next suspension point and is dropped there (pc "last").
Aborted(rep) ==
    IF rep.pc = "sleep" THEN [rep EXCEPT !.pc = "aborted"]
    ELSE IF rep.pc = "run" THEN [rep EXCEPT !.pc = "last"]
    ELSE rep

\* One turn of the join loop, lines 163-177.
TransferorAwait(r) ==
    /\ run[r].spc = "transfer"
    /\ run[r].tpc = "await"
    /\ LET chunk_id == run[r].handles[run[r].k]
           w == worker[r][WorkerOf(r, chunk_id)]
           last == run[r].k = Len(run[r].handles)
       IN  /\ w.pc = "done"
           /\ IF w.res.ok
              THEN /\ run' = [run EXCEPT
                         ![r].chunk_paths = Append(@, chunk_id),
                         ![r].k = @ + 1,
                         ![r].tpc = IF last THEN "check" ELSE "await"]
                   /\ UNCHANGED reporter
              ELSE IF ~handle[r].cancelled
              THEN /\ reporter' = [reporter EXCEPT ![r] = Aborted(@)]
                   /\ run' = [run EXCEPT ![r].result = w.res, ![r].tpc = "returned"]
              ELSE /\ run' = [run EXCEPT
                         ![r].k = @ + 1,
                         ![r].tpc = IF last THEN "check" ELSE "await"]
                   /\ UNCHANGED reporter
    /\ UNCHANGED <<calls, planner, disk, video, boot, pace, server, settings, history,
                   downloads, nruns, handle, worker, single, temp, files, events, ghost>>

\* Lines 179-191: the reporter is aborted; a set flag ends the run.
TransferorCheck(r) ==
    /\ run[r].spc = "transfer"
    /\ run[r].tpc = "check"
    /\ reporter' = [reporter EXCEPT ![r] = Aborted(@)]
    /\ IF handle[r].cancelled
       THEN /\ events' = [events EXCEPT ![r].cancelled = @ + 1]
            /\ run' = [run EXCEPT ![r].result = Err("DownloadCancelled", 0, "plain"),
                                  ![r].tpc = "returned"]
       ELSE /\ run' = [run EXCEPT ![r].tpc = "merge"]
            /\ UNCHANGED events
    /\ UNCHANGED <<calls, planner, disk, video, boot, pace, server, settings, history,
                   downloads, nruns, handle, worker, single, temp, files, ghost>>

\* Lines 193-205: the worker paths sorted by id, then every chunk_<i> that
\* exists and is not among them, sorted again.
MergePaths(chunk_paths, num_connections, dir) ==
    LET sorted == SortIds(chunk_paths)
        have == {sorted[k] : k \in 1..Len(sorted)}
        extra == {i \in 0..(num_connections - 1) : i \in DOMAIN dir /\ i \notin have}
        pushed == [k \in 1..Cardinality(extra) |->
                      CHOOSE x \in extra : Cardinality({y \in extra : y < x}) = k - 1]
    IN  SortIds(sorted \o pushed)

\* merge_chunks: the output is created (truncated), then each path is read
\* and appended; the first path that cannot be read ends it with an Err.
RECURSIVE MergedBytes(_, _)
MergedBytes(paths, dir) ==
    IF paths = <<>> \/ Head(paths) \notin DOMAIN dir THEN <<>>
    ELSE dir[Head(paths)] \o MergedBytes(Tail(paths), dir)

MergeFails(paths, dir) == \E k \in 1..Len(paths) : paths[k] \notin DOMAIN dir

TransferorMerge(r) ==
    /\ run[r].spc = "transfer"
    /\ run[r].tpc = "merge"
    /\ LET dir == DirOf(run[r].id)
           paths == MergePaths(run[r].chunk_paths, run[r].num_connections, dir)
       IN  /\ files' = MapInsert(files, run[r].path, MergedBytes(paths, dir))
           /\ run' = [run EXCEPT
                 ![r].chunk_paths = paths,
                 ![r].result = IF MergeFails(paths, dir)
                               THEN Err("ReadChunkFailed", 0, "plain") ELSE @,
                 ![r].tpc = IF MergeFails(paths, dir) THEN "returned" ELSE "cleanup"]
    /\ UNCHANGED <<calls, planner, disk, video, boot, pace, server, settings, history,
                   downloads, nruns, handle, worker, reporter, single, temp, events, ghost>>

\* download_chunked's end with the temp directory left where it is.
TransferorFinishKeepingDir(r) ==
    /\ run[r].spc = "transfer"
    /\ run[r].tpc = "cleanup"
    /\ events' = [events EXCEPT ![r].complete = @ + 1]
    /\ run' = [run EXCEPT ![r].result = OkResult, ![r].tpc = "returned"]
    /\ UNCHANGED <<calls, planner, disk, video, boot, pace, server, settings, history,
                   downloads, nruns, handle, worker, reporter, single, temp, files, ghost>>
\* Lines 208-218: remove_dir_all, download-complete, Ok.  A worker that
\* still holds a segment file open keeps writing to the unlinked file.
TransferorFinish(r) ==
    /\ run[r].spc = "transfer"
    /\ run[r].tpc = "cleanup"
    /\ temp' = MapRemove(temp, run[r].id)
    /\ worker' = [q \in Runs |->
          [k \in 1..Len(worker[q]) |->
              IF run[q].id = run[r].id /\ worker[q][k].fd = "open"
              THEN [worker[q][k] EXCEPT !.fd = "orphan"] ELSE worker[q][k]]]
    /\ events' = [events EXCEPT ![r].complete = @ + 1]
    /\ run' = [run EXCEPT ![r].result = OkResult, ![r].tpc = "returned"]
    /\ UNCHANGED <<calls, planner, disk, video, boot, pace, server, settings, history,
                   downloads, nruns, handle, reporter, single, files, ghost>>

\* ----------------------------------------------------------------- network
\* What a GET can come to: a transport error, an error status, a response.
Outcomes ==
    IF server.faults > 0 THEN {"send_error", "http_error", "success"} ELSE {"success"}

\* What stream.next() can yield when `left` bytes of the body remain: a
\* buffer of n bytes, or an Err item (-1).
Items(left) ==
    (IF server.faults > 0 THEN {-1} ELSE {}) \cup 1..Min(MaxBuf, left)

Faulted == [server EXCEPT !.faults = @ - 1]

\* A range that starts at or past the end of the resource is answered 416.
Unsatisfiable(first, len) == server.mode = "range" /\ first >= len

\* ---------------------------------------------------------- segment worker
\* The segment's start, whatever has been downloaded.
ActualStartIgnoringProgress(start, already_downloaded) == start
\* download_chunk, line 233.
ActualStart(start, already_downloaded) == WrapAdd(start, already_downloaded)

SetWorker(r, k, w) == [worker EXCEPT ![r][k] = w]

\* A worker's return drops its locals and closes its file.
WorkerReturns(w, res) ==
    [w EXCEPT !.pc = "done", !.res = res, !.fd = "none", !.held = 0,
              !.pos = 0, !.next = 0, !.stop = 0]

\* download_chunk up to the stream: the early return, the ranged GET, the
\* status check, the open (create, no truncate) and the seek.
WorkerRequest(r, k) ==
    /\ k \in 1..Len(worker[r])
    /\ worker[r][k].pc = "init"
    /\ LET w == worker[r][k]
           id == run[r].id
           actual_start == ActualStart(w.start, w.already)
           len == RemoteLen(run[r].total_size)
       IN  IF actual_start > w.end
           THEN /\ worker' = SetWorker(r, k, WorkerReturns(w, OkResult))
                /\ UNCHANGED <<temp, server>>
           ELSE \E outcome \in Outcomes :
                CASE outcome = "send_error" ->
                        /\ worker' = SetWorker(r, k,
                              WorkerReturns(w, Err("ChunkRequestFailed", w.id, run[r].url)))
                        /\ server' = Faulted
                        /\ UNCHANGED temp
                  [] outcome = "http_error" \/ Unsatisfiable(actual_start, len) ->
                        /\ worker' = SetWorker(r, k,
                              WorkerReturns(w, Err("ChunkHttpError", w.id, "plain")))
                        /\ server' = IF outcome = "http_error" THEN Faulted ELSE server
                        /\ UNCHANGED temp
                  [] OTHER ->
                        /\ UNCHANGED server
                        /\ IF id \notin DOMAIN temp
                           THEN /\ worker' = SetWorker(r, k,
                                      WorkerReturns(w, Err("OpenChunkFailed", w.id, "plain")))
                                /\ UNCHANGED temp
                           ELSE /\ temp' = IF w.id \in DOMAIN temp[id] THEN temp
                                           ELSE [temp EXCEPT ![id] = MapInsert(@, w.id, <<>>)]
                                /\ worker' = SetWorker(r, k,
                                      [w EXCEPT
                                         !.pc = "stream", !.fd = "open",
                                         !.pos = w.already,
                                         !.next = IF server.mode = "range"
                                                  THEN actual_start ELSE 0,
                                         !.stop = IF server.mode = "range"
                                                  THEN Min(w.end + 1, len) ELSE len])
    /\ UNCHANGED <<calls, planner, disk, video, boot, pace, settings, history, downloads, nruns,
                   run, handle, reporter, single, files, events, ghost>>

\* The counter's fetch_add without the write that precedes it.
WorkerWritesCountOnly(r, k, n) ==
    LET w == worker[r][k]
    IN  IF n < 0
        THEN /\ worker' = SetWorker(r, k,
                    WorkerReturns(w, Err("StreamError", w.id, "plain")))
             /\ UNCHANGED <<temp, handle>>
        ELSE /\ worker' = SetWorker(r, k,
                    [w EXCEPT !.pc = "stream", !.held = 0,
                              !.pos = @ + n, !.next = @ + n])
             /\ UNCHANGED temp
             /\ handle' = [handle EXCEPT
                    ![r].chunk_downloaded[w.id + 1] = WrapAdd(@, n)]
\* Lines 281-285 for a buffer of n bytes (n = -1: the stream's Err item):
\* the write at the file cursor and the counter's fetch_add.
WorkerWrites(r, k, n) ==
    LET w == worker[r][k]
        id == run[r].id
        data == SubSeq(Remote(run[r].total_size), w.next + 1, w.next + n)
    IN  IF n < 0
        THEN /\ worker' = SetWorker(r, k,
                    WorkerReturns(w, Err("StreamError", w.id, "plain")))
             /\ UNCHANGED <<temp, handle>>
        ELSE /\ worker' = SetWorker(r, k,
                    [w EXCEPT !.pc = "stream", !.held = 0,
                              !.pos = @ + n, !.next = @ + n])
             /\ temp' = IF w.fd = "open"
                        THEN [temp EXCEPT ![id][w.id] = WriteAt(@, w.pos, data)]
                        ELSE temp
             /\ handle' = [handle EXCEPT
                    ![r].chunk_downloaded[w.id + 1] = WrapAdd(@, n)]

\* One stream.next(): an item (a buffer or an Err) or the end of the body.
WorkerNext(r, k) ==
    /\ k \in 1..Len(worker[r])
    /\ worker[r][k].pc = "stream"
    /\ LET w == worker[r][k]
       IN  \/ /\ w.next = w.stop
              /\ worker' = SetWorker(r, k, WorkerReturns(w, OkResult))
              /\ UNCHANGED <<temp, handle, server>>
           \/ \E n \in Items(w.stop - w.next) :
              /\ server' = IF n < 0 THEN Faulted ELSE server
              /\ IF handle[r].cancelled
                 THEN /\ worker' = SetWorker(r, k,
                             WorkerReturns(w, Err("Cancelled", w.id, "plain")))
                      /\ UNCHANGED <<temp, handle>>
                 ELSE IF handle[r].paused
                 THEN /\ worker' = SetWorker(r, k, [w EXCEPT !.pc = "paused", !.held = n])
                      /\ UNCHANGED <<temp, handle>>
                 ELSE WorkerWrites(r, k, n)
    /\ UNCHANGED <<calls, planner, disk, video, boot, pace, settings, history, downloads, nruns,
                   run, reporter, single, files, events, ghost>>

\* The pause loop left on a cancel only.
WorkerPauseLoopCancelOnly(r, k) ==
    /\ k \in 1..Len(worker[r])
    /\ worker[r][k].pc = "paused"
    /\ handle[r].cancelled
    /\ worker' = SetWorker(r, k,
           WorkerReturns(worker[r][k], Err("Cancelled", worker[r][k].id, "plain")))
    /\ UNCHANGED <<calls, planner, disk, video, boot, pace, server, settings, history,
                   downloads, nruns, run, handle, reporter, single, temp, files, events, ghost>>
\* The pause loop without its re-check of the cancel flag.
WorkerPauseLoopNoCancel(r, k) ==
    /\ k \in 1..Len(worker[r])
    /\ worker[r][k].pc = "paused"
    /\ ~handle[r].paused
    /\ WorkerWrites(r, k, worker[r][k].held)
    /\ UNCHANGED <<calls, planner, disk, video, boot, pace, server, settings, history,
                   downloads, nruns, run, reporter, single, files, events, ghost>>
\* The pause loop, lines 274-279, after a 100 ms sleep.
WorkerPauseLoop(r, k) ==
    /\ k \in 1..Len(worker[r])
    /\ worker[r][k].pc = "paused"
    /\ LET w == worker[r][k]
       IN  IF ~handle[r].paused THEN WorkerWrites(r, k, w.held)
           ELSE /\ handle[r].cancelled
                /\ worker' = SetWorker(r, k,
                       WorkerReturns(w, Err("Cancelled", w.id, "plain")))
                /\ UNCHANGED <<temp, handle>>
    /\ UNCHANGED <<calls, planner, disk, video, boot, pace, server, settings, history,
                   downloads, nruns, run, reporter, single, files, events, ghost>>

\* ---------------------------------------------------------------- reporter
\* Lines 112-114: every segment's snapshot goes into the record.
RECURSIVE SaveProgress(_, _, _, _)
SaveProgress(h, id, snap, k) ==
    IF k > Len(snap) THEN h
    ELSE SaveProgress(update_chunk_progress(h, id, k - 1, snap[k]), id, snap, k + 1)

\* One iteration of the reporter's loop, after its 100 ms sleep.  The
\* iteration counter save_counter is not kept: how many iterations pass
\* between two steps of the other tasks is arbitrary (nine more can always
\* have passed right after the spawn or right after a checkpoint), so
\* whether this iteration is a tenth one (line 108) is a free choice.
ReporterTick(r) ==
    /\ reporter[r].pc = "sleep"
    /\ IF handle[r].cancelled
       THEN /\ reporter' = [reporter EXCEPT ![r].pc = "exited"]
            /\ UNCHANGED <<history, events>>
       ELSE LET snap == handle[r].chunk_downloaded
                total == SumSeq(snap)
                is_paused == handle[r].paused
            IN  /\ events' = [events EXCEPT ![r].progress =
                      IF is_paused THEN "paused" ELSE "downloading"]
                /\ \E tenth \in BOOLEAN :
                      history' = IF tenth THEN SaveProgress(history, run[r].id, snap, 1)
                                 ELSE history
                /\ reporter' = [reporter EXCEPT ![r].pc =
                      IF total >= run[r].total_size THEN "exited" ELSE "sleep"]
    /\ UNCHANGED <<calls, planner, disk, video, boot, pace, server, settings, downloads, nruns,
                   run, handle, worker, single, temp, files, ghost>>

\* The same iteration as two steps, for a reporter polled on one thread of
\* the runtime while the transferor runs on another.  Lines 66-70: the sleep
\* has returned and the flag was read as unset.
ReporterWake(r) ==
    /\ reporter[r].pc = "sleep"
    /\ ~handle[r].cancelled
    /\ reporter' = [reporter EXCEPT ![r].pc = "run"]
    /\ UNCHANGED <<calls, planner, disk, video, boot, pace, server, settings, history,
                   downloads, nruns, run, handle, worker, single, temp, files, events, ghost>>

\* Lines 71-120 of that iteration: the snapshot, the emit, the checkpoint
\* of a tenth iteration (the write lock is free between two steps, so the
\* task does not suspend before line 114), then the next sleep, where an
\* abort() made in the meantime takes effect.
ReporterEmit(r) ==
    /\ reporter[r].pc \in {"run", "last"}
    /\ LET snap == handle[r].chunk_downloaded
           total == SumSeq(snap)
           is_paused == handle[r].paused
       IN  /\ events' = [events EXCEPT ![r].progress =
                 IF is_paused THEN "paused" ELSE "downloading"]
           /\ \E tenth \in BOOLEAN :
                 history' = IF tenth THEN SaveProgress(history, run[r].id, snap, 1)
                            ELSE history
           /\ reporter' = [reporter EXCEPT ![r].pc =
                 IF reporter[r].pc = "last" THEN "aborted"
                 ELSE IF total >= run[r].total_size THEN "exited" ELSE "sleep"]
    /\ UNCHANGED <<calls, planner, disk, video, boot, pace, server, settings, downloads, nruns,
                   run, handle, worker, single, temp, files, ghost>>
\* ---------------------------------------------------- single-stream transferor
\* download_single up to the stream: the GET, the status check, File::create.
SingleRequest(r) ==
    /\ run[r].spc = "transfer"
    /\ run[r].kind = "single"
    /\ run[r].tpc = "start"
    /\ \E outcome \in Outcomes :
         CASE outcome = "send_error" ->
                 /\ run' = [run EXCEPT ![r].result = Err("RequestFailed", 0, run[r].url),
                                       ![r].tpc = "returned"]
                 /\ server' = Faulted
                 /\ UNCHANGED files
           [] outcome = "http_error" ->
                 /\ run' = [run EXCEPT ![r].result = Err("HttpError", 0, "plain"),
                                       ![r].tpc = "returned"]
                 /\ server' = Faulted
                 /\ UNCHANGED files
           [] OTHER ->
                 /\ files' = MapInsert(files, run[r].path, <<>>)
                 /\ run' = [run EXCEPT ![r].tpc = "stream"]
                 /\ UNCHANGED server
    /\ UNCHANGED <<calls, planner, disk, video, boot, pace, settings, history, downloads, nruns,
                   handle, worker, reporter, single, temp, events, ghost>>

\* Lines 402-406 for a buffer of n bytes (n = -1: the stream's Err item).
SingleWrites(r, n) ==
    LET data == SubSeq(Remote(run[r].total_size), single[r].sent + 1, single[r].sent + n)
    IN  IF n < 0
        THEN /\ run' = [run EXCEPT ![r].result = Err("StreamError", 0, "plain"),
                                   ![r].tpc = "returned"]
             /\ single' = [single EXCEPT ![r].held = 0]
             /\ UNCHANGED files
        ELSE /\ run' = [run EXCEPT ![r].tpc = "stream"]
             /\ single' = [single EXCEPT ![r].sent = @ + n, ![r].held = 0]
             /\ files' = IF run[r].path \in DOMAIN files
                         THEN [files EXCEPT ![run[r].path] = @ \o data]
                         ELSE files

\* One stream.next() of download_single.
SingleNext(r) ==
    /\ run[r].spc = "transfer"
    /\ run[r].kind = "single"
    /\ run[r].tpc = "stream"
    /\ LET len == RemoteLen(run[r].total_size)
       IN  \/ /\ single[r].sent = len
              /\ run' = [run EXCEPT ![r].result = OkResult, ![r].tpc = "returned"]
              /\ events' = [events EXCEPT ![r].complete = @ + 1]
              /\ UNCHANGED <<single, files, server>>
           \/ \E n \in Items(len - single[r].sent) :
              /\ server' = IF n < 0 THEN Faulted ELSE server
              /\ IF handle[r].cancelled
                 THEN /\ files' = MapRemove(files, run[r].path)
                      /\ events' = [events EXCEPT ![r].cancelled = @ + 1]
                      /\ run' = [run EXCEPT
                            ![r].result = Err("DownloadCancelled", 0, "plain"),
                            ![r].tpc = "returned"]
                      /\ UNCHANGED single
                 ELSE IF handle[r].paused
                 THEN /\ run' = [run EXCEPT ![r].tpc = "paused"]
                      /\ single' = [single EXCEPT ![r].held = n]
                      /\ UNCHANGED <<files, events>>
                 ELSE /\ SingleWrites(r, n)
                      /\ UNCHANGED events
    /\ UNCHANGED <<calls, planner, disk, video, boot, pace, settings, history, downloads, nruns,
                   handle, worker, reporter, temp, ghost>>

\* The pause loop of download_single returning on a cancel with the file
\* left behind.
SinglePauseLoopKeepingFile(r) ==
    /\ run[r].spc = "transfer"
    /\ run[r].kind = "single"
    /\ run[r].tpc = "paused"
    /\ IF ~handle[r].paused THEN SingleWrites(r, single[r].held)
       ELSE /\ handle[r].cancelled
            /\ run' = [run EXCEPT ![r].result = Err("DownloadCancelled", 0, "plain"),
                                  ![r].tpc = "returned"]
            /\ single' = [single EXCEPT ![r].held = 0]
            /\ UNCHANGED files
    /\ UNCHANGED <<calls, planner, disk, video, boot, pace, server, settings, history,
                   downloads, nruns, handle, worker, reporter, temp, events, ghost>>
\* The pause loop of download_single, lines 381-400.
SinglePauseLoop(r) ==
    /\ run[r].spc = "transfer"
    /\ run[r].kind = "single"
    /\ run[r].tpc = "paused"
    /\ IF ~handle[r].paused THEN SingleWrites(r, single[r].held)
       ELSE /\ handle[r].cancelled
            /\ files' = MapRemove(files, run[r].path)
            /\ run' = [run EXCEPT ![r].result = Err("DownloadCancelled", 0, "plain"),
                                  ![r].tpc = "returned"]
            /\ single' = [single EXCEPT ![r].held = 0]
    /\ UNCHANGED <<calls, planner, disk, video, boot, pace, server, settings, history,
                   downloads, nruns, handle, worker, reporter, temp, events, ghost>>

\* ------------------------------------------------------------ specifications
StartSizes == 0..MaxSize

SupervisorStep(r) ==
    \/ SupervisorBegin(r)
    \/ SupervisorUnregister(r)
    \/ SupervisorFinish(r)

ChunkedStep(r) ==
    \/ TransferorStart(r)
    \/ \E k \in 1..MaxConn : WorkerRequest(r, k)
    \/ \E k \in 1..MaxConn : WorkerNext(r, k)
    \/ ReporterTick(r)
    \/ TransferorAwait(r)
    \/ TransferorCheck(r)
    \/ TransferorMerge(r)
    \/ TransferorFinish(r)

SingleStep(r) ==
    \/ SingleRequest(r)
    \/ SingleNext(r)

PauseLoopStep(r) ==
    \/ \E k \in 1..MaxConn : WorkerPauseLoop(r, k)
    \/ SinglePauseLoop(r)

TaskStep ==
    \E r \in Runs :
        SupervisorStep(r) \/ ChunkedStep(r) \/ SingleStep(r) \/ PauseLoopStep(r)

CancelCall ==
    /\ calls.cancels < MaxCancels
    /\ \E id \in DOMAIN downloads : cancel_download(id)

PauseCall ==
    \E id \in DOMAIN downloads : pause_download(id)

ResumeCall ==
    \E id \in DOMAIN downloads : resume_download(id)

StartCall ==
    /\ history = <<>>
    /\ \E url \in Urls, filename \in Filenames, size \in StartSizes,
          resumable \in BOOLEAN, now \in Timestamps :
          start_download(url, filename, size, resumable, now)

\* One download from its start to its end, under every control command.
Next ==
    \/ StartCall
    \/ CancelCall
    \/ PauseCall
    \/ ResumeCall
    \/ TaskStep

Spec == Init /\ [][Next]_vars

\* A segmented download from a server that honours Range requests, which
\* is interrupted (by a failure or a cancel) and resumed once its supervisor
\* has written the terminal status.  (SpecOverlap has the resume that does
\* not wait.)
InitResume ==
    /\ Init
    /\ server.mode = "range"
    /\ settings.connections = MaxConn

StartSegmented ==
    /\ history = <<>>
    /\ \E filename \in Filenames, now \in Timestamps :
          start_download("plain", filename, MaxSize, TRUE, now)

\* The supervisor task of every earlier run of id has written its status.
Settled(id) ==
    \A q \in Runs : run[q].id = id => run[q].spc \in {"done", "retired"}

ResumeInterruptedCall ==
    \E id \in DOMAIN history :
        /\ Settled(id)
        /\ resume_interrupted_download(id)

NextResume ==
    \/ StartSegmented
    \/ ResumeInterruptedCall
    \/ CancelCall
    \/ \E r \in Runs : SupervisorStep(r) \/ ChunkedStep(r)

SpecResume == InitResume /\ [][NextResume]_vars

\* ---------------------------------------------------------------- SpecPlan
\* The segment planner on its own: DownloadRecord::new for a total size and
\* a connection count, then download_chunked's plan for the fresh job.
PlanSizes == 1..MaxPlanSize
PlanConnections == MinConnections..MaxConnections

InitPlan ==
    /\ planner \in [stage : {"input"}, total_size : PlanSizes,
                    num_connections : PlanConnections,
                    build : {"debug", "release"},
                    panicked : {FALSE}, chunks : {<<>>}]
    /\ pace = [stage |-> "off"]
    /\ LifeInit

\* DownloadRecord::new, lines 136-152.
PlannerNew ==
    /\ planner.stage = "input"
    /\ planner' =
          IF planner.build = "debug"
             /\ PlanUnderflows(planner.total_size, planner.num_connections)
          THEN [planner EXCEPT !.stage = "record", !.panicked = TRUE]
          ELSE [planner EXCEPT
                  !.stage = "record",
                  !.chunks = NewChunks(planner.total_size, planner.num_connections)]
    /\ UNCHANGED lifeVars

\* download_chunked, lines 20-41, with existing_chunks = None.
PlannerChunked ==
    /\ planner.stage = "record"
    /\ ~planner.panicked
    /\ planner' =
          [planner EXCEPT
             !.stage = "plan",
             !.chunks = PlanChunks(planner.total_size, planner.num_connections, <<>>)]
    /\ UNCHANGED lifeVars

NextPlan == PlannerNew \/ PlannerChunked

SpecPlan == InitPlan /\ [][NextPlan]_vars

\* ------------------------------------------------------------------ claims
\* The sizes end - start + 1 of a plan's segments.
Sizes(chunks) == [k \in 1..Len(chunks) |-> ChunkTotal(chunks[k])]

\* C7: for every connection count n in 1..32 and every total size S > 0
\* (S < n included) the planner produces n segments whose sizes sum to S,
\* only the last size differs from the others, by at most n - 1 bytes, and
\* no start or end is computed with an unsigned underflow.
C7_PlanIsExact ==
    planner.stage \in {"record", "plan"} =>
        LET S == planner.total_size
            n == planner.num_connections
            sizes == Sizes(planner.chunks)
        IN  /\ ~planner.panicked
            /\ ~PlanUnderflows(S, n)
            /\ Len(planner.chunks) = n
            /\ SumSeq(sizes) = S
            /\ \A i \in 1..(n - 1) : sizes[i] = sizes[1]
            /\ sizes[n] - sizes[1] \in 0..(n - 1)

\* The segments of rec cover [0, total_size) in order, without gap or overlap.
Partitions(rec) ==
    LET chunks == rec.chunks
        n == Len(chunks)
    IN  /\ n >= 1
        /\ chunks[1].start = 0
        /\ \A i \in 1..(n - 1) : chunks[i].end + 1 = chunks[i + 1].start
        /\ chunks[n].end = rec.total_size - 1

\* C8: every record of the ledger, the records of single-stream jobs of
\* total size 0 and of non-resumable jobs included, has segments that
\* partition [0, total_size): each segment ends right before the next one
\* starts and the last one ends at total_size - 1.
C8_SegmentsPartition ==
    \A id \in DOMAIN history : Partitions(history[id])

\* C9: in every ledger state, the downloaded values of a record sum to at
\* most its total size, and to exactly its total size if and only if its
\* status is Completed.  Stated for the records of a known (non-zero) size.
C9_DownloadedSum ==
    \A id \in DOMAIN history :
        LET rec == history[id]
        IN  rec.total_size > 0 =>
               /\ total_downloaded(rec) <= rec.total_size
               /\ total_downloaded(rec) = rec.total_size <=> rec.status = "Completed"

\* The status of the record of run r, once the supervisor has written it.
StatusOf(r) == history[run[r].id].status
Finished(r) == run[r].spc = "done"

\* C1 (as the code has it): when a transferor returns, the supervisor sets
\* the status to Completed for Ok, to Cancelled for an Err whose message
\* contains "cancelled" byte for byte (case-sensitively), and to Failed for
\* any other Err.
C1_StatusByResult ==
    \A r \in Runs :
        Finished(r) =>
            StatusOf(r) =
                IF run[r].result.ok THEN "Completed"
                ELSE IF Contains(ErrText(run[r].result), cancelled_lit) THEN "Cancelled"
                ELSE "Failed"

\* C1 (as stated): ... to Cancelled for an Err whose message contains
\* "cancelled" compared case-insensitively, and to Failed for any other Err.
C1_StatusIgnoringCase ==
    \A r \in Runs :
        Finished(r) =>
            StatusOf(r) =
                IF run[r].result.ok THEN "Completed"
                ELSE IF ContainsIgnoreCase(ErrText(run[r].result), cancelled_lit)
                     THEN "Cancelled"
                ELSE "Failed"

\* A transferor has returned an Err whose message has the word in another
\* case only, and the supervisor has written the status.
C1_Witness ==
    \E r \in Runs :
        /\ Finished(r)
        /\ ~run[r].result.ok
        /\ ContainsIgnoreCase(ErrText(run[r].result), cancelled_lit)
        /\ ~Contains(ErrText(run[r].result), cancelled_lit)
        /\ StatusOf(r) = "Failed"

\* C2: a chunked job that is cancelled while segment workers are still
\* transferring ends with status Cancelled, with its temp directory and the
\* segment files still there, with no download-error event and with exactly
\* one download-progress event of status "cancelled" from the transferor.
C2_CancelMidFlight ==
    \A r \in Runs :
        (run[r].kind = "chunked" /\ ghost[r].cancelMid /\ Finished(r)) =>
            /\ StatusOf(r) = "Cancelled"
            /\ run[r].id \in DOMAIN temp
            /\ ghost[r].cancelFiles \subseteq DOMAIN temp[run[r].id]
            /\ events[r].error = 0
            /\ events[r].cancelled = 1

\* A chunked job was cancelled while a worker was transferring, segment
\* files were there, and the run has ended.
C2_Witness ==
    \E r \in Runs :
        /\ run[r].kind = "chunked"
        /\ ghost[r].cancelMid
        /\ ghost[r].cancelFiles # {}
        /\ Finished(r)
        /\ StatusOf(r) = "Cancelled"

\* ---------------------------------------------------------------- SpecLive
\* One segmented download under every control command, with the runtime's
\* fairness: every task that can take a step eventually takes one.
InitLive ==
    /\ Init
    /\ settings.connections = MaxConn

TransferorStep(r) ==
    \/ TransferorStart(r)
    \/ TransferorAwait(r)
    \/ TransferorCheck(r)
    \/ TransferorMerge(r)
    \/ TransferorFinish(r)

WorkerStep(r, k) ==
    \/ WorkerRequest(r, k)
    \/ WorkerNext(r, k)
    \/ WorkerPauseLoop(r, k)

NextLive ==
    \/ StartSegmented
    \/ CancelCall
    \/ PauseCall
    \/ ResumeCall
    \/ \E r \in Runs : SupervisorStep(r) \/ TransferorStep(r) \/ ReporterTick(r)
    \/ \E r \in Runs, k \in 1..MaxConn : WorkerStep(r, k)

\* tokio polls every task that has been woken: the supervisor task (which
\* runs the transferor), the reporter task and each worker task.
Fairness ==
    \A r \in Runs :
        /\ WF_vars(SupervisorStep(r) \/ TransferorStep(r))
        /\ WF_vars(ReporterTick(r))
        /\ \A k \in 1..MaxConn : WF_vars(WorkerStep(r, k))

SpecLive == InitLive /\ [][NextLive]_vars /\ Fairness

\* Every worker of run r has returned, its reporter has stopped, its
\* supervisor has written the status and removed the handle.
AllOver(r) ==
    /\ Finished(r)
    /\ \A k \in 1..Len(worker[r]) : ~LiveWorker(worker[r][k])
    /\ reporter[r].pc # "sleep"
    /\ run[r].id \notin DOMAIN downloads

NoFaultYet == server.faults = MaxFaults

OverlapId == DownloadId("f", 0)

\* What was checkpointed and what the segment files hold, per segment.
Interrupted ==
    {st \in [saved : [1..MaxConn -> 0..MaxSize], have : [1..MaxConn -> 0..MaxSize]] :
        LET chunks == NewChunks(MaxSize, MaxConn)
        IN  \A k \in 1..MaxConn :
               /\ st.saved[k] <= st.have[k]
               /\ st.have[k] <= ChunkTotal(chunks[k])}

InterruptedRecord(st) ==
    [NewRecord(OverlapId, "plain", "f", MaxSize, TRUE, MaxConn) EXCEPT
        !.status = "Paused",
        !.chunks = [k \in 1..MaxConn |-> [@[k] EXCEPT !.downloaded = st.saved[k]]]]

InterruptedDir(st) ==
    LET chunks == NewChunks(MaxSize, MaxConn)
    IN  [i \in {k - 1 : k \in {j \in 1..MaxConn : st.have[j] > 0}} |->
            SubSeq(Remote(MaxSize), chunks[i + 1].start + 1,
                   chunks[i + 1].start + st.have[i + 1])]

InitOverlap ==
    /\ planner = [stage |-> "off"]
    /\ pace = [stage |-> "off"]
    /\ boot = Booted
    /\ disk = NoDisk
    /\ video = NoVideo
    /\ calls = NoCalls
    /\ server = [mode |-> "range", faults |-> 0]
    /\ settings = [connections |-> MaxConn, speed_limit |-> 0]
    /\ \E st \in Interrupted :
          /\ history = MapInsert(<<>>, OverlapId, InterruptedRecord(st))
          /\ temp = MapInsert(<<>>, OverlapId, InterruptedDir(st))
    /\ downloads = <<>>
    /\ nruns = 0
    /\ run = [r \in Runs |-> NoRun]
    /\ handle = [r \in Runs |-> NoHandle]
    /\ worker = [r \in Runs |-> <<>>]
    /\ reporter = [r \in Runs |-> NoReporter]
    /\ single = [r \in Runs |-> NoSingle]
    /\ files = <<>>
    /\ events = [r \in Runs |-> NoEvents]
    /\ ghost = [r \in Runs |-> NoGhost]

NextOverlap ==
    \/ \E id \in DOMAIN history : resume_interrupted_download(id)
    \/ \E r \in Runs : SupervisorStep(r) \/ ChunkedStep(r)

SpecOverlap == InitOverlap /\ [][NextOverlap]_vars

\* No task of any run can take a step any more.
Quiescent ==
    \A r \in Runs :
        /\ run[r].spc \in {"unused", "done", "retired"}
        /\ \A k \in 1..Len(worker[r]) : ~LiveWorker(worker[r][k])

\* The second call found the id active and was let through all the same.
SecondRunOverlapped == nruns >= 2 /\ run[1].spc # "retired"

\* C4: two calls of resume_interrupted_download in succession on one id:
\* either the second is a no-op because the id is still active (no second
\* handle, no second set of workers), or the final file is the one a single
\* call produces (with a network that does not fail: the remote resource).
C4_ResumeTwice ==
    (Quiescent /\ SecondRunOverlapped) =>
        /\ "f" \in DOMAIN files
        /\ files["f"] = Remote(MaxSize)

\* The segment files of a directory of n segments, in ascending id.
AscendingFiles(dir, n) ==
    Concat([k \in 1..n |-> IF (k - 1) \in DOMAIN dir THEN dir[k - 1] ELSE <<>>])

\* C5: for a chunked job that returns Ok, with a server that answers each
\* Range request with exactly the requested bytes, the final file is the
\* segment files concatenated in ascending segment id, and equals the remote
\* resource, with length total_size.
C5_MergedInOrder ==
    \A r \in Runs :
        (run[r].kind = "chunked" /\ server.mode = "range") =>
            /\ run[r].tpc = "cleanup" =>
                  /\ run[r].path \in DOMAIN files
                  /\ files[run[r].path] =
                        AscendingFiles(DirOf(run[r].id), run[r].num_connections)
            /\ run[r].result.ok =>
                  /\ run[r].path \in DOMAIN files
                  /\ files[run[r].path] = Remote(run[r].total_size)
                  /\ Len(files[run[r].path]) = run[r].total_size

\* A resumed chunked job has returned Ok after a merge that took a segment
\* file no worker of this run had written.
C5_Witness ==
    \E r \in Runs :
        /\ run[r].kind = "chunked"
        /\ run[r].result.ok
        /\ \E k \in 1..Len(worker[r]) : worker[r][k].pc = "skipped"
        /\ \E k \in 1..Len(worker[r]) : worker[r][k].pc = "done"
        /\ files[run[r].path] = Remote(run[r].total_size)

\* C6: when resume_interrupted_download runs on a record whose checkpoints
\* are covered by the bytes of the temp segment files, each unfinished
\* segment requests the range that starts at start + downloaded (and writes
\* at offset downloaded), a segment whose downloaded equals its size is not
\* requested again and its temp file goes into the merge, and a job that
\* completes leaves a final file equal to the remote resource.
C6_ResumeFromCheckpoint ==
    \A r \in Runs :
        (run[r].existing # <<>> /\ ghost[r].resumeSound) =>
            /\ \A k \in 1..Len(worker[r]) :
                  LET w == worker[r][k]
                  IN  /\ w.already >= ChunkTotal(w) <=> w.pc = "skipped"
                      /\ w.pc \in {"stream", "paused"} =>
                            /\ w.pos >= w.already
                            /\ w.next = w.start + w.pos
                      /\ (w.pc = "skipped" /\ run[r].tpc = "cleanup") =>
                            \E j \in 1..Len(run[r].chunk_paths) :
                                run[r].chunk_paths[j] = w.id
            /\ run[r].result.ok =>
                  /\ run[r].path \in DOMAIN files
                  /\ files[run[r].path] = Remote(run[r].total_size)

\* A resumed job has completed: one segment was complete and was skipped,
\* another was resumed from a checkpoint inside it.
C6_Witness ==
    \E r \in Runs :
        /\ run[r].existing # <<>>
        /\ ghost[r].resumeSound
        /\ Finished(r)
        /\ run[r].result.ok
        /\ \E k \in 1..Len(worker[r]) : worker[r][k].pc = "skipped"
        /\ \E k \in 1..Len(worker[r]) :
              /\ worker[r][k].pc = "done"
              /\ worker[r][k].already > 0
        /\ files[run[r].path] = Remote(run[r].total_size)

\* The downloaded values of a record.
Downloaded(rec) == [k \in 1..Len(rec.chunks) |-> rec.chunks[k].downloaded]

\* C10: once a record's status is Completed, Cancelled or Failed, no step
\* of any task changes a downloaded value of its segments.
C10_TerminalFrozen ==
    [][\A id \in DOMAIN history :
          history[id].status \in Terminal =>
              /\ id \in DOMAIN history'
              /\ Downloaded(history'[id]) = Downloaded(history[id])]_vars

\* The segment of rec with the given id.
ChunkOf(rec, chunk_id) ==
    rec.chunks[CHOOSE k \in 1..Len(rec.chunks) : rec.chunks[k].id = chunk_id]

\* C11: in every reachable state, for every segment of every record and for
\* every per-segment counter of every active handle, downloaded is at most
\* end - start + 1, whether the server answers a Range request with 206
\* (mode "range") or with 200 (mode "full").
C11_DownloadedWithinSegment ==
    /\ \A id \in DOMAIN history :
          \A k \in 1..Len(history[id].chunks) :
              history[id].chunks[k].downloaded <= ChunkTotal(history[id].chunks[k])
    /\ \A id \in DOMAIN downloads :
          id \in DOMAIN history =>
              \A j \in 1..Len(handle[downloads[id]].chunk_downloaded) :
                  (\E k \in 1..Len(history[id].chunks) : history[id].chunks[k].id = j - 1) =>
                      handle[downloads[id]].chunk_downloaded[j]
                          <= ChunkTotal(ChunkOf(history[id], j - 1))

\* --------------------------------------------------------------- SpecStarts
\* start_download called more than once for one filename.  The clock
\* (chrono::Utc::now().timestamp_millis()) does not run backwards, and two
\* calls can fall into the same millisecond.
StartTimes == 0..1

\* The timestamps of the ids made so far.
StampsSoFar == {id[2] : id \in DOMAIN history}

InitStarts ==
    /\ Init
    /\ server.mode = "range"
    /\ settings.connections = 1

StartAgain ==
    \E filename \in Filenames, size \in {0, MaxSize}, resumable \in BOOLEAN,
       now \in StartTimes :
        /\ \A t \in StampsSoFar : t <= now
        /\ start_download("plain", filename, size, resumable, now)

NextStarts ==
    \/ StartAgain
    \/ \E r \in Runs : SupervisorStep(r) \/ ChunkedStep(r) \/ SingleStep(r)

SpecStarts == InitStarts /\ [][NextStarts]_vars

\* The step is a start_download that has made its record and its handle.
StartStep == nruns' = nruns + 1 /\ run'[nruns'].existing = <<>>

\* C12: job ids are unique across the ledger: start_download never creates
\* a record whose id equals the id of a record already in the ledger, so no
\* existing record and no active handle is overwritten by a new job, two
\* starts of one filename within the same millisecond included.
C12_IdsUnique ==
    [][StartStep =>
          /\ run'[nruns'].id \notin DOMAIN history
          /\ run'[nruns'].id \notin DOMAIN downloads
          /\ \A id \in DOMAIN history : history'[id] = history[id]
          /\ \A id \in DOMAIN downloads : downloads'[id] = downloads[id]]_vars

\* -------------------------------------------------------------- SpecStartup
\* The start-up task of run(): the ledger is loaded from disk, every
\* Downloading record becomes Paused and gets a new updated_at, and the
\* result becomes the ledger of the AppState.
Statuses == {"Pending", "Downloading", "Paused", "Completed", "Failed", "Cancelled"}

\* A record with its updated_at field.
Stamped(rec, t) ==
    [f \in DOMAIN rec \cup {"updated_at"} |-> IF f = "updated_at" THEN t ELSE rec[f]]

\* The records a history file can hold for one id.
LoadedRecords(id) ==
    {Stamped([NewRecord(id, "plain", id[1], MaxSize, TRUE, MaxConn) EXCEPT
                 !.status = st, !.chunks[1].downloaded = saved], 0) :
        st \in Statuses, saved \in 0..1}

LoadedIds == {DownloadId("f", 0), DownloadId("f", 1)}

RECURSIVE LedgersOver(_)
LedgersOver(ids) ==
    IF ids = {} THEN {<<>>}
    ELSE LET id == CHOOSE x \in ids : TRUE
         IN  LedgersOver(ids \ {id})
               \cup {MapInsert(h, id, rec) :
                        h \in LedgersOver(ids \ {id}), rec \in LoadedRecords(id)}

\* The clock at start-up, later than every updated_at on disk.
BootTimes == 1..2

\* The loop as a no-op.
ReconcileNothing(h, now) == h
\* lib.rs, lines 1120-1127: the loop over history.downloads.values_mut().
Reconcile(h, now) ==
    [id \in DOMAIN h |->
        IF h[id].status = "Downloading"
        THEN [h[id] EXCEPT !.status = "Paused", !.updated_at = now]
        ELSE h[id]]

InitStartup ==
    /\ planner = [stage |-> "off"]
    /\ pace = [stage |-> "off"]
    /\ calls = NoCalls
    /\ boot \in [stage : {"load"}, loaded : LedgersOver(LoadedIds)]
    /\ disk = NoDisk
    /\ video = NoVideo
    /\ server = [mode |-> "range", faults |-> 0]
    /\ settings = [connections |-> MaxConn, speed_limit |-> 0]
    /\ history = <<>>
    /\ downloads = <<>>
    /\ nruns = 0
    /\ run = [r \in Runs |-> NoRun]
    /\ handle = [r \in Runs |-> NoHandle]
    /\ worker = [r \in Runs |-> <<>>]
    /\ reporter = [r \in Runs |-> NoReporter]
    /\ single = [r \in Runs |-> NoSingle]
    /\ temp = <<>>
    /\ files = <<>>
    /\ events = [r \in Runs |-> NoEvents]
    /\ ghost = [r \in Runs |-> NoGhost]

\* The spawned task of setup, lines 1115-1132.
Startup ==
    /\ boot.stage = "load"
    /\ \E now \in BootTimes : history' = Reconcile(boot.loaded, now)
    /\ boot' = [boot EXCEPT !.stage = "done"]
    /\ UNCHANGED <<calls, planner, disk, video, pace, server, settings, downloads, nruns, run,
                   handle, worker, reporter, single, temp, files, events, ghost>>

NextStartup == Startup

SpecStartup == InitStartup /\ [][NextStartup]_vars

\* C13: after the start-up reconciliation has run, no record loaded from
\* disk has status Downloading: each such record has status Paused, every
\* record with another status keeps it, and every field of every record
\* other than status and updated_at is as it was loaded.
C13_StartupDemotes ==
    (boot.stage = "done" /\ boot.loaded # <<>>) =>
        /\ DOMAIN history = DOMAIN boot.loaded
        /\ \A id \in DOMAIN boot.loaded :
              LET old == boot.loaded[id]
                  new == history[id]
              IN  /\ new.status # "Downloading"
                  /\ old.status = "Downloading" => new.status = "Paused"
                  /\ old.status # "Downloading" => new = old
                  /\ DOMAIN new = DOMAIN old
                  /\ \A f \in DOMAIN old \ {"status", "updated_at"} : new[f] = old[f]

\* The reconciliation has run on a ledger with a Downloading record, which
\* is now Paused, and a Failed record, which is as it was.
C13_Witness ==
    /\ boot.stage = "done"
    /\ \E id \in DOMAIN boot.loaded :
          /\ boot.loaded[id].status = "Downloading"
          /\ history[id].status = "Paused"
          /\ history[id].updated_at > boot.loaded[id].updated_at
    /\ \E id \in DOMAIN boot.loaded :
          /\ boot.loaded[id].status = "Failed"
          /\ history[id] = boot.loaded[id]

\* ---------------------------------------------------------------- SpecCalls
\* One download, and pause, resume and cancel called with the id of that
\* download or with an id nothing was ever started under.
CallIds == {DownloadId("f", 0), DownloadId("g", 0)}
\* The size of the download of SpecCalls.
CallSize == 1

InitCalls ==
    /\ Init
    /\ server.mode = "range"
    /\ settings.connections = 1

StartOne ==
    /\ history = <<>>
    /\ \E resumable \in BOOLEAN : start_download("plain", "f", CallSize, resumable, 0)

PauseAny == \E id \in CallIds : pause_download(id)
ResumeAny == \E id \in CallIds : resume_download(id)
CancelAny == \E id \in CallIds : calls.cancels < MaxCancels /\ cancel_download(id)
ResumeInterruptedAny == \E id \in CallIds : resume_interrupted_download(id)

NextCalls ==
    \/ StartOne
    \/ PauseAny
    \/ ResumeAny
    \/ CancelAny
    \/ TaskStep

SpecCalls == InitCalls /\ [][NextCalls]_vars

\* The same download, and resume_interrupted_download called with either id
\* at any time.
NextRejects ==
    \/ StartOne
    \/ CancelAny
    \/ ResumeInterruptedAny
    \/ \E r \in Runs : SupervisorStep(r) \/ ChunkedStep(r) \/ SingleStep(r)

SpecRejects == InitCalls /\ [][NextRejects]_vars

\* The step is a call of op that returned Err.
RejectedStep(op) == calls'.rejected # calls.rejected /\ calls'.rejected.op = op

\* The step is a resume_interrupted_download that went through.
ResumedStep == nruns' = nruns + 1 /\ run'[nruns'].existing # <<>>

\* The id is unknown, or its record has another status than Paused, Failed
\* or Downloading, or its record is not resumable.
CannotResume(id) ==
    \/ id \notin DOMAIN history
    \/ history[id].status \notin {"Paused", "Failed", "Downloading"}
    \/ ~history[id].resumable

\* C14: resume_interrupted_download(id) returns an error, changes neither
\* the ledger, the active map nor any file and spawns nothing, when the id
\* is unknown, when the record's status is not one of Paused, Failed,
\* Downloading, or when the record is not resumable: a call that goes
\* through is never one of these, and a call that is rejected is one of
\* these and changes nothing.
C14_ResumeRejected ==
    [][/\ ResumedStep => ~CannotResume(run'[nruns'].id)
       /\ RejectedStep("resume_interrupted_download") =>
             /\ CannotResume(calls'.rejected.id)
             /\ UNCHANGED <<history, downloads, temp, files, nruns, run, handle,
                            worker, reporter, single>>]_vars

\* resume_interrupted_download has been rejected for a record that is not
\* resumable, though its status is Failed.
C14_Witness ==
    /\ calls.rejected.op = "resume_interrupted_download"
    /\ calls.rejected.id \in DOMAIN history
    /\ history[calls.rejected.id].status = "Failed"
    /\ ~history[calls.rejected.id].resumable

\* C15: pause_download, resume_download and cancel_download called with an
\* id that has no handle in the active map return an error and leave every
\* handle flag and every ledger record unchanged: a call that is rejected
\* had no handle to find and changes nothing, and a flag only ever changes
\* on a handle that is in the active map.
C15_NotFound ==
    [][/\ \A op \in {"pause_download", "resume_download", "cancel_download"} :
             RejectedStep(op) =>
                /\ calls'.rejected.id \notin DOMAIN downloads
                /\ UNCHANGED <<handle, history, downloads>>
       /\ \A r \in Runs :
             (/\ nruns' = nruns
              /\ \/ handle'[r].paused # handle[r].paused
                 \/ handle'[r].cancelled # handle[r].cancelled) =>
                /\ run[r].id \in DOMAIN downloads
                /\ downloads[run[r].id] = r]_vars

\* pause_download has been rejected for the id of a job that has ended: its
\* record is there, its handle is not.
C15_Witness ==
    /\ calls.rejected.op = "pause_download"
    /\ calls.rejected.id \in DOMAIN history
    /\ calls.rejected.id \notin DOMAIN downloads
    /\ history[calls.rejected.id].status = "Completed"

\* Run r is the active job of its id, pause_download has set its flag, and
\* neither resume_download nor cancel_download has followed.
PausedActive(r) ==
    /\ run[r].id \in DOMAIN downloads
    /\ downloads[run[r].id] = r
    /\ handle[r].paused
    /\ ~handle[r].cancelled

\* C16: after pause_download(id) has returned Ok for an active job, and as
\* long as no resume_download or cancel_download for id follows, the
\* handle's paused flag is true and the record's status is Paused (the
\* job's own supervisor task does not set it back to Downloading), and
\* every download-progress event the reporter emits for id has status
\* "paused" (and with it speed 0).
C16_PauseHolds ==
    [][\A r \in Runs :
          (PausedActive(r) /\ PausedActive(r)') =>
              /\ history'[run[r].id].status = "Paused"
              /\ ReporterTick(r) => events'[r].progress = "paused"]_vars

\* Worker k of run r sits in the pause loop with a buffer in hand, and the
\* flag has been cleared.
Released(r, k) ==
    /\ k \in 1..Len(worker[r])
    /\ worker[r][k].pc = "paused"
    /\ worker[r][k].held > 0
    /\ ~handle[r].paused
    /\ ~handle[r].cancelled

\* Worker k of run r leaves the pause loop for the stream in this step.
LeavesLoop(r, k) ==
    /\ k \in 1..Len(worker[r])
    /\ worker[r][k].pc = "paused"
    /\ worker'[r][k].pc = "stream"

\* C17: resume_download(id) on an id with an active handle clears the
\* paused flag and sets the record's status to Downloading without
\* inserting a handle or spawning a transferor, and every segment worker
\* that was blocked in the pause loop eventually leaves the loop (unless
\* pause_download or cancel_download sets a flag again before the worker
\* has looked), and a worker that leaves the loop writes its pending buffer.
C17_ResumeReleases ==
    /\ [][\A r \in Runs :
             (handle[r].paused /\ ~handle'[r].paused /\ nruns' = nruns) =>
                 /\ history'[run[r].id].status = "Downloading"
                 /\ UNCHANGED <<downloads, nruns, run, worker, reporter>>]_vars
    /\ [][\A r \in Runs, k \in 1..MaxConn :
             LeavesLoop(r, k) =>
                LET w == worker[r][k]
                    id == run[r].id
                IN  /\ ~handle[r].paused
                    /\ worker'[r][k].pos = w.pos + w.held
                    /\ handle'[r].chunk_downloaded[w.id + 1]
                          = handle[r].chunk_downloaded[w.id + 1] + w.held
                    /\ w.fd = "open" =>
                          /\ Len(temp'[id][w.id]) >= w.pos + w.held
                          /\ SubSeq(temp'[id][w.id], w.pos + 1, w.pos + w.held)
                                = SubSeq(Remote(run[r].total_size),
                                         w.next + 1, w.next + w.held)]_vars
    /\ \A r \in Runs, k \in 1..MaxConn :
          Released(r, k)
             ~> \/ k \in 1..Len(worker[r]) /\ worker[r][k].pc = "stream"
                \/ handle[r].paused
                \/ handle[r].cancelled

\* resume_download has cleared the flag and written Downloading while a
\* worker still sits in the pause loop with a buffer in hand.
C17_Witness ==
    \E r \in Runs, k \in 1..MaxConn :
        /\ Released(r, k)
        /\ StatusOf(r) = "Downloading"
        /\ events[r].progress = "paused"

\* ---------------------------------------------------------------- SpecLimit
\* set_speed_limit against start_download and resume_interrupted_download
\* taken at their suspension points: each of the two reads
\* settings.speed_limit under the settings lock, and only later, under the
\* lock of the active map, inserts the handle it has built with that value.
MaxLimit == 1
Limits == 0..MaxLimit

\* set_speed_limit: the setting is stored, then every handle of the active
\* map gets the value.
set_speed_limit(limit) ==
    /\ settings' = [settings EXCEPT !.speed_limit = limit]
    /\ handle' = [r \in Runs |->
          IF \E id \in DOMAIN downloads : downloads[id] = r
          THEN [handle[r] EXCEPT !.speed_limit = limit] ELSE handle[r]]
    /\ UNCHANGED <<calls, planner, disk, video, boot, pace, server, history, downloads, nruns,
                   run, worker, reporter, single, temp, files, events, ghost>>

\* start_download up to line 214: the record is in the ledger, the speed
\* limit has been read.
StartReads(url, filename, size, resumable, now) ==
    /\ nruns < MaxRuns
    /\ LET num_connections == settings.connections
           id == DownloadId(filename, now)
       IN  /\ ~PlanUnderflows(size, num_connections)
           /\ history' = add_download(history,
                 NewRecord(id, url, filename, size, resumable, num_connections))
           /\ Spawn(nruns + 1,
                 [NoRun EXCEPT !.id = id, !.url = url, !.path = filename,
                               !.kind = IF resumable /\ size > 0
                                        THEN "chunked" ELSE "single",
                               !.total_size = size,
                               !.num_connections = num_connections,
                               !.spc = "starting"],
                 [cancelled |-> FALSE, paused |-> FALSE,
                  chunk_downloaded |-> [k \in 1..num_connections |-> 0],
                  speed_limit |-> settings.speed_limit],
                 NoGhost)
    /\ UNCHANGED <<calls, planner, disk, video, boot, pace, server, settings, downloads, single,
                   temp, files>>

\* resume_interrupted_download up to line 326: the checks have passed, the
\* speed limit has been read.
ResumeReads(id) ==
    /\ nruns < MaxRuns
    /\ id \in DOMAIN history
    /\ history[id].status \in ResumableStatuses
    /\ history[id].resumable
    /\ LET record == history[id]
       IN  Spawn(nruns + 1,
                 [NoRun EXCEPT !.id = id, !.url = record.url,
                               !.path = record.file_path, !.kind = "chunked",
                               !.total_size = record.total_size,
                               !.num_connections = record.num_connections,
                               !.existing = record.chunks,
                               !.spc = "starting"],
                 [cancelled |-> FALSE, paused |-> FALSE,
                  chunk_downloaded |->
                      [k \in 1..Len(record.chunks) |-> record.chunks[k].downloaded],
                  speed_limit |-> settings.speed_limit],
                 [NoGhost EXCEPT !.resumeSound = CheckpointsWithinFiles(record)])
    /\ UNCHANGED <<calls, planner, disk, video, boot, pace, server, settings, history,
                   downloads, single, temp, files>>

\* The rest of either handler: the handle goes into the active map and the
\* supervisor task is spawned.
Registers(r) ==
    /\ run[r].spc = "starting"
    /\ downloads' = MapInsert(downloads, run[r].id, r)
    /\ run' = [run EXCEPT ![r].spc = "begin"]
    /\ UNCHANGED <<calls, planner, disk, video, boot, pace, server, settings, history, nruns,
                   handle, worker, reporter, single, temp, files, events, ghost>>

SetLimitCall == \E limit \in Limits : set_speed_limit(limit)

StartReadsCall ==
    /\ history = <<>>
    /\ \E resumable \in BOOLEAN : StartReads("plain", "f", CallSize, resumable, 0)

ResumeReadsCall == \E id \in DOMAIN history : ResumeReads(id)

NextLimit ==
    \/ SetLimitCall
    \/ StartReadsCall
    \/ ResumeReadsCall
    \/ \E r \in Runs : Registers(r)
    \/ \E r \in Runs : SupervisorStep(r) \/ ChunkedStep(r) \/ SingleStep(r)

SpecLimit == InitCalls /\ [][NextLimit]_vars

\* C18: after set_speed_limit(n) has returned Ok, every handle that is in
\* the active map, one inserted by a start_download or a
\* resume_interrupted_download that was in progress meanwhile included,
\* carries speed_limit n, the stored setting.
C18_LimitEverywhere ==
    \A id \in DOMAIN downloads :
        handle[downloads[id]].speed_limit = settings.speed_limit

\* C20: start_download runs the chunked transferor if and only if resumable
\* is true and size > 0; in every other case, resumable with size 0
\* included, it runs the single-stream transferor; and the job has been
\* created and started without an arithmetic fault (no subtraction of
\* DownloadRecord::new has gone below zero).
C20_Routing ==
    \A r \in Runs :
        (run[r].spc \notin {"unused", "retired"} /\ run[r].existing = <<>>) =>
            /\ run[r].id \in DOMAIN history
            /\ run[r].kind = "chunked" <=>
                  (history[run[r].id].resumable /\ run[r].total_size > 0)
            /\ run[r].kind = "single" <=>
                  ~(history[run[r].id].resumable /\ run[r].total_size > 0)
            /\ ~PlanUnderflows(run[r].total_size, run[r].num_connections)

\* ----------------------------------------------------------------- SpecPace
\* The pacing of download_chunk, lines 264-308, for the one worker of a job
\* with one connection, against a clock.  Time is counted in ticks,
\* TicksPerSecond of them to the second; the speed limit is PaceLimit bytes
\* per second; every stream item is a buffer of PaceBuf bytes.  The network
\* hands over a buffer whenever the worker asks, or lets time pass.
TicksPerSecond == 4
PaceLimit == 4
PaceBuf == 1
PaceChunks == 1
\* The clock stops here.
MaxTicks == 9

\* The bytes received at each of the last TicksPerSecond ticks, the
\* current one last: a window of less than one second of wall time.
NoLog == [k \in 1..TicksPerSecond |-> 0]

InitPace ==
    /\ planner = [stage |-> "off"]
    /\ LifeInit
    /\ server.mode = "range"
    /\ settings.connections = PaceChunks
    /\ pace = [stage |-> "stream", now |-> 0, throttle_start |-> 0,
               throttle_bytes |-> 0, wake |-> 0, log |-> NoLog]

\* (expected_time - elapsed) in whole ticks, for throttle_bytes bytes
\* against chunk_limit bytes per second after elapsed ticks; 0 when
\* expected_time <= elapsed.  (f64 in the code; exact here, the limit
\* being a multiple of the tick rate.)
Delay(throttle_bytes, chunk_limit, elapsed) ==
    IF throttle_bytes * TicksPerSecond > elapsed * chunk_limit
    THEN (throttle_bytes * TicksPerSecond - elapsed * chunk_limit) \div chunk_limit
    ELSE 0

\* One turn of the loop for a buffer: lines 287-307.  The worker is not
\* asleep; the sleep it may go into ends at wake, and the reset is looked
\* at when it wakes.
PaceReceive ==
    /\ pace.stage = "stream"
    /\ pace.now >= pace.wake
    /\ LET num_chunks == PaceChunks
           speed_limit == PaceLimit
           throttle_bytes == pace.throttle_bytes + PaceBuf
           chunk_limit == speed_limit \div num_chunks
           elapsed == pace.now - pace.throttle_start
           awake == pace.now + Delay(throttle_bytes, chunk_limit, elapsed)
           reset == awake - pace.throttle_start >= TicksPerSecond
       IN  pace' = [pace EXCEPT
              !.wake = awake,
              !.throttle_start = IF reset THEN awake ELSE @,
              !.throttle_bytes = IF reset THEN 0 ELSE throttle_bytes,
              !.log[TicksPerSecond] = @ + PaceBuf]
    /\ UNCHANGED <<calls, planner, disk, video, boot, server, settings, history, downloads,
                   nruns, run, handle, worker, reporter, single, temp, files, events, ghost>>

\* A tick of the clock.
PaceTick ==
    /\ pace.stage = "stream"
    /\ pace.now < MaxTicks
    /\ pace' = [pace EXCEPT !.now = @ + 1, !.log = Tail(@) \o <<0>>]
    /\ UNCHANGED <<calls, planner, disk, video, boot, server, settings, history, downloads,
                   nruns, run, handle, worker, reporter, single, temp, files, events, ghost>>

NextPace == PaceReceive \/ PaceTick

SpecPace == InitPace /\ [][NextPace]_vars

\* C19: for a chunked job with speed limit L > 0 held constant, over any
\* 1-second window of wall time (windows that straddle a worker's
\* pacing-window reset and windows that follow a period in which the
\* network delivered little included) the bytes received across all
\* segments do not exceed L plus one buffer per segment.
C19_RateWithinLimit ==
    pace.stage = "stream" =>
        SumSeq(pace.log) <= PaceLimit + PaceChunks * PaceBuf

\* ---------------------------------------------------------------- C21..C30
\* The chunked run r has returned from download_chunked.
ChunkedEnded(r) ==
    /\ run[r].kind = "chunked"
    /\ run[r].tpc = "returned"
    /\ run[r].spc # "retired"

\* Every segment of run r that has received bytes has its file in dir.
SegmentFilesIn(r, dir) ==
    \A j \in 1..Len(handle[r].chunk_downloaded) :
        handle[r].chunk_downloaded[j] > 0 => (j - 1) \in DOMAIN dir

\* C21: once a chunked run has returned, its temp directory is gone if it
\* returned Ok; if it returned an Err (a cancel, a worker's failure) the
\* directory is still there and holds the file of every segment that has
\* received bytes.
C21_TempDirAtEnd ==
    \A r \in Runs :
        ChunkedEnded(r) =>
            IF run[r].result.ok
            THEN run[r].id \notin DOMAIN temp
            ELSE /\ run[r].id \in DOMAIN temp
                 /\ SegmentFilesIn(r, temp[run[r].id])

\* A run ended by a worker's failure, with bytes of another segment on disk.
C21_Witness ==
    \E r \in Runs :
        /\ ChunkedEnded(r)
        /\ ~run[r].result.ok
        /\ ~handle[r].cancelled
        /\ \E j \in 1..Len(handle[r].chunk_downloaded) :
              handle[r].chunk_downloaded[j] > 0

\* Some segment worker of run r has returned an Err.
WorkerErred(r) ==
    \E k \in 1..Len(worker[r]) : worker[r][k].pc = "done" /\ ~worker[r][k].res.ok

\* The join loop returned a worker's Err: it found the flag unset (line 167).
ErrPropagated(r) ==
    \E k \in 1..Len(worker[r]) :
        worker[r][k].pc = "done" /\ ~worker[r][k].res.ok /\ run[r].result = worker[r][k].res

\* C22: a worker's Err examined with the cancelled flag unset resolves the
\* job to Failed with exactly one download-error event; a worker's Err
\* examined with the flag set resolves it to Cancelled with no
\* download-error event.
C22_WorkerErrorResolution ==
    \A r \in Runs :
        (Finished(r) /\ run[r].kind = "chunked" /\ WorkerErred(r)) =>
            IF ErrPropagated(r)
            THEN StatusOf(r) = "Failed" /\ events[r].error = 1
            ELSE run[r].result.kind = "DownloadCancelled" =>
                    StatusOf(r) = "Cancelled" /\ events[r].error = 0

\* The single-stream run r is in its pause loop with the paused flag set.
SingleHeld(r) ==
    /\ run[r].kind = "single"
    /\ run[r].tpc = "paused"
    /\ handle[r].paused

\* C23: a single-stream job writes nothing while it is held in its pause
\* loop, leaves the loop on a cancel, and whenever it has resolved with
\* status Cancelled its destination file does not exist.
C23_SingleCancelRemovesFile ==
    [][\A r \in Runs :
          /\ (SingleHeld(r) /\ handle'[r].paused) =>
                \/ files' = files /\ single'[r] = single[r]
                \/ /\ handle[r].cancelled
                   /\ run'[r].tpc = "returned"
                   /\ run'[r].result = Err("DownloadCancelled", 0, "plain")
          /\ (run'[r].kind = "single" /\ run'[r].spc = "done"
                 /\ history'[run'[r].id].status = "Cancelled") =>
                run'[r].path \notin DOMAIN files']_vars

\* A single-stream job that had written part of its file was cancelled in
\* its pause loop (no "cancelled" progress event) and has resolved.
C23_Witness ==
    \E r \in Runs :
        /\ run[r].kind = "single"
        /\ Finished(r)
        /\ StatusOf(r) = "Cancelled"
        /\ single[r].sent > 0
        /\ events[r].cancelled = 0
        /\ run[r].path \notin DOMAIN files

\* The single-stream run r holds its destination file open: from
\* File::create to its return.
HoldsOpen(r) ==
    /\ run[r].kind = "single"
    /\ run[r].spc = "transfer"
    /\ run[r].tpc \in {"stream", "paused"}

\* The step is merge_chunks of run r: its File::create and its writes.
Merges(r) == run[r].tpc = "merge" /\ run'[r].tpc # "merge"

\* C24: no two tasks hold one destination file open for writing: two
\* single-stream workers never hold the same path, and no merger writes a
\* path that a single-stream worker holds.
C24_OneWriterPerPath ==
    [][\A r, q \in Runs :
          (r # q /\ run'[r].path = run'[q].path) =>
              /\ ~(HoldsOpen(r)' /\ HoldsOpen(q)')
              /\ ~(Merges(r) /\ HoldsOpen(q))]_vars

\* Worker k of run r is a download_chunk task that has its segment file open.
WritesSegment(r, k) ==
    /\ k \in 1..Len(worker[r])
    /\ LiveWorker(worker[r][k])
    /\ worker[r][k].fd = "open"

\* C25: no two segment workers write one temp segment file: for a job id
\* and a segment id there is at most one download_chunk task that has the
\* file open.
C25_OneWorkerPerSegment ==
    \A r, q \in Runs : \A k, j \in 1..MaxConn :
        (/\ WritesSegment(r, k)
         /\ WritesSegment(q, j)
         /\ run[r].id = run[q].id
         /\ worker[r][k].id = worker[q][j].id) => (r = q /\ k = j)

\* The transferor of run r has been called and has not returned.
TransferorRunning(r) == run[r].spc = "transfer" /\ run[r].tpc # "returned"

\* C26: the active map holds an id exactly while a transferor for it runs:
\* a running transferor's id is in the map and maps to the handle its
\* workers read, and an id in the map belongs to a task that has been
\* spawned and has not yet removed it.
C26_HandleWhileRunning ==
    /\ \A r \in Runs :
          TransferorRunning(r) =>
              /\ run[r].id \in DOMAIN downloads
              /\ downloads[run[r].id] = r
    /\ \A id \in DOMAIN downloads :
          /\ run[downloads[id]].id = id
          /\ run[downloads[id]].spc \in {"begin", "transfer"}

\* ------------------------------------------------------------------ SpecSave
\* DownloadHistory::save writing downloads.json while the process can stop,
\* and DownloadHistory::load at the next launch.  The file's content is a
\* sequence of tokens: an opening brace, a key and a value per record, a
\* closing brace.
RECURSIVE Members(_, _)
Members(h, ids) ==
    IF ids = {} THEN <<>>
    ELSE LET id == CHOOSE x \in ids : TRUE
         IN  <<[t |-> "key", id |-> id], [t |-> "value", rec |-> h[id]]>>
                \o Members(h, ids \ {id})

\* serde_json::to_string_pretty(self), line 81.
to_string_pretty(h) == <<[t |-> "{"]>> \o Members(h, DOMAIN h) \o <<[t |-> "}"]>>

\* What serde_json::from_str accepts: a whole document.
WellFormed(content) ==
    /\ Len(content) >= 2
    /\ Len(content) % 2 = 0
    /\ content[1].t = "{"
    /\ content[Len(content)].t = "}"
    /\ \A k \in 2..(Len(content) - 1) :
          content[k].t = IF k % 2 = 0 THEN "key" ELSE "value"

\* serde_json::from_str(&content).unwrap_or_default(), line 66.
from_str_or_default(content) ==
    IF WellFormed(content)
    THEN LET keys == {k \in 2..(Len(content) - 1) : k % 2 = 0}
         IN  [id \in {content[k].id : k \in keys} |->
                 content[1 + CHOOSE k \in keys :
                                /\ content[k].id = id
                                /\ \A j \in keys : content[j].id = id => j <= k].rec]
    ELSE <<>>

\* DownloadHistory::load on a file that exists.
load(content) == from_str_or_default(content)

InitSave ==
    /\ planner = [stage |-> "off"]
    /\ pace = [stage |-> "off"]
    /\ calls = NoCalls
    /\ boot = Booted
    /\ server = [mode |-> "range", faults |-> 0]
    /\ settings = [connections |-> MaxConn, speed_limit |-> 0]
    /\ history \in LedgersOver(LoadedIds)
    /\ video = NoVideo
    /\ disk = [stage |-> "idle", file |-> to_string_pretty(history),
               content |-> <<>>, old |-> history, new |-> history]
    /\ downloads = <<>>
    /\ nruns = 0
    /\ run = [r \in Runs |-> NoRun]
    /\ handle = [r \in Runs |-> NoHandle]
    /\ worker = [r \in Runs |-> <<>>]
    /\ reporter = [r \in Runs |-> NoReporter]
    /\ single = [r \in Runs |-> NoSingle]
    /\ temp = <<>>
    /\ files = <<>>
    /\ events = [r \in Runs |-> NoEvents]
    /\ ghost = [r \in Runs |-> NoGhost]

\* A handler changes a record's status and calls save(): lines 72-83, up to
\* the serialised content.
save(id, st) ==
    /\ disk.stage = "idle"
    /\ id \in DOMAIN history
    /\ history[id].status # st
    /\ history' = update_status(history, id, st)
    /\ disk' = [disk EXCEPT !.stage = "create", !.new = history',
                            !.content = to_string_pretty(history')]
    /\ UNCHANGED <<calls, planner, video, boot, pace, server, settings, downloads, nruns, run,
                   handle, worker, reporter, single, temp, files, events, ghost>>

\* fs::write, line 84: File::create truncates the file.
WriteCreate ==
    /\ disk.stage = "create"
    /\ disk' = [disk EXCEPT !.stage = "write", !.file = <<>>]
    /\ UNCHANGED <<calls, planner, video, boot, pace, server, settings, history, downloads,
                   nruns, run, handle, worker, reporter, single, temp, files, events, ghost>>

\* fs::write, line 84: write_all hands the content to the file in one or
\* more writes; after the last one save() returns Ok.
WriteAll ==
    /\ disk.stage = "write"
    /\ \E n \in 1..(Len(disk.content) - Len(disk.file)) :
          LET written == SubSeq(disk.content, 1, Len(disk.file) + n)
          IN  disk' = IF written = disk.content
                      THEN [disk EXCEPT !.stage = "idle", !.file = written,
                                        !.content = <<>>, !.old = disk.new]
                      ELSE [disk EXCEPT !.file = written]
    /\ UNCHANGED <<calls, planner, video, boot, pace, server, settings, history, downloads,
                   nruns, run, handle, worker, reporter, single, temp, files, events, ghost>>

\* The process stops: what it held in memory is gone, the file stays as it is.
ProcessStops ==
    /\ disk.stage \in {"idle", "create", "write"}
    /\ disk' = [disk EXCEPT !.stage = "stopped", !.content = <<>>]
    /\ history' = <<>>
    /\ UNCHANGED <<calls, planner, video, boot, pace, server, settings, downloads, nruns, run,
                   handle, worker, reporter, single, temp, files, events, ghost>>

\* The next launch: DownloadHistory::load() in the start-up task, lib.rs
\* line 1113.
Launch ==
    /\ disk.stage = "stopped"
    /\ boot' = [stage |-> "load", loaded |-> load(disk.file)]
    /\ disk' = [disk EXCEPT !.stage = "loaded"]
    /\ UNCHANGED <<calls, planner, video, pace, server, settings, history, downloads, nruns,
                   run, handle, worker, reporter, single, temp, files, events, ghost>>

NextSave ==
    \/ \E id \in LoadedIds, st \in Statuses : save(id, st)
    \/ WriteCreate
    \/ WriteAll
    \/ ProcessStops
    \/ Launch
    \/ Startup

SpecSave == InitSave /\ [][NextSave]_vars

\* C27: save() is atomic: when the process has stopped at any point and the
\* ledger is loaded again, it is the complete ledger the file held before
\* the save or the complete ledger that was being saved; so it is not empty
\* when neither of them is.
C27_SaveIsAtomic ==
    disk.stage = "loaded" =>
        /\ boot.loaded \in {disk.old, disk.new}
        /\ (disk.old # <<>> /\ disk.new # <<>>) => boot.loaded # <<>>

\* -------------------------------------------------------------- SpecSettings
\* set_connections against the Settings in memory and in settings.json, and
\* the records start_download makes from them.
DEFAULT_CONNECTIONS == 8

\* The values the window may pass: every count in range, and one on either
\* side of it.
ConnectionInputs == (MinConnections - 1)..(MaxConnections + 1)

\* set_connections with no check of its argument.
set_connectionsUnchecked(connections) ==
    /\ settings' = [settings EXCEPT !.connections = connections]
    /\ disk' = [disk EXCEPT !.settings = settings']
    /\ UNCHANGED <<calls, planner, video, boot, pace, server, history, downloads, nruns, run,
                   handle, worker, reporter, single, temp, files, events, ghost>>
\* set_connections: the check, the assignment, settings.save().
set_connections(connections) ==
    IF connections < MinConnections \/ connections > MaxConnections
    THEN Rejected("set_connections", <<connections>>)
    ELSE
      /\ settings' = [settings EXCEPT !.connections = connections]
      /\ disk' = [disk EXCEPT !.settings = settings']
      /\ UNCHANGED <<calls, planner, video, boot, pace, server, history, downloads, nruns, run,
                     handle, worker, reporter, single, temp, files, events, ghost>>

\* Settings::default(), and settings.json as save() has written it.
InitSettings ==
    /\ planner = [stage |-> "off"]
    /\ pace = [stage |-> "off"]
    /\ calls = NoCalls
    /\ boot = Booted
    /\ server = [mode |-> "range", faults |-> 0]
    /\ settings = [connections |-> DEFAULT_CONNECTIONS, speed_limit |-> 0]
    /\ video = NoVideo
    /\ disk = [stage |-> "settings", settings |-> settings]
    /\ history = <<>>
    /\ downloads = <<>>
    /\ nruns = 0
    /\ run = [r \in Runs |-> NoRun]
    /\ handle = [r \in Runs |-> NoHandle]
    /\ worker = [r \in Runs |-> <<>>]
    /\ reporter = [r \in Runs |-> NoReporter]
    /\ single = [r \in Runs |-> NoSingle]
    /\ temp = <<>>
    /\ files = <<>>
    /\ events = [r \in Runs |-> NoEvents]
    /\ ghost = [r \in Runs |-> NoGhost]

SetConnectionsCall == \E n \in ConnectionInputs : set_connections(n)

StartWithSettings ==
    \E filename \in Filenames, now \in Timestamps :
        start_download("plain", filename, MaxSize, TRUE, now)

NextSettings ==
    \/ SetConnectionsCall
    \/ StartWithSettings

SpecSettings == InitSettings /\ [][NextSettings]_vars

\* C28: set_connections(n) with n < 1 or n > 32 returns an Err and leaves
\* the settings in memory and on disk as they were; with any other n it sets
\* connections to n, in memory and on disk; and every record start_download
\* makes has num_connections in 1..32.
C28_ConnectionsValidated ==
    [][/\ \A n \in ConnectionInputs :
             set_connections(n) =>
                 IF n < 1 \/ n > 32
                 THEN /\ calls'.rejected = [op |-> "set_connections", id |-> <<n>>]
                      /\ settings' = settings
                      /\ disk' = disk
                 ELSE /\ settings'.connections = n
                      /\ disk'.settings.connections = n
                      /\ calls' = calls
       /\ \A id \in DOMAIN history' : history'[id].num_connections \in 1..32]_vars

\* A count of 33 has been refused, the setting is 32, and a record has
\* been made with it.
C28_Witness ==
    /\ calls.rejected = [op |-> "set_connections", id |-> <<MaxConnections + 1>>]
    /\ settings.connections = MaxConnections
    /\ \E id \in DOMAIN history : history[id].num_connections = MaxConnections

\* ------------------------------------------------------------- SpecReconnect
\* SpecResume with set_connections called at any time: a segmented download
\* is started, interrupted and resumed while the setting changes.
ReconnectInputs == {MinConnections - 1} \cup 1..MaxConn \cup {MaxConnections + 1}

InitReconnect ==
    /\ planner = [stage |-> "off"]
    /\ pace = [stage |-> "off"]
    /\ calls = NoCalls
    /\ boot = Booted
    /\ server = [mode |-> "range", faults |-> MaxFaults]
    /\ settings \in [connections : 1..MaxConn, speed_limit : {0}]
    /\ video = NoVideo
    /\ disk = [stage |-> "settings", settings |-> settings]
    /\ history = <<>>
    /\ downloads = <<>>
    /\ nruns = 0
    /\ run = [r \in Runs |-> NoRun]
    /\ handle = [r \in Runs |-> NoHandle]
    /\ worker = [r \in Runs |-> <<>>]
    /\ reporter = [r \in Runs |-> NoReporter]
    /\ single = [r \in Runs |-> NoSingle]
    /\ temp = <<>>
    /\ files = <<>>
    /\ events = [r \in Runs |-> NoEvents]
    /\ ghost = [r \in Runs |-> NoGhost]

ReconnectCall == \E n \in ReconnectInputs : set_connections(n)

NextReconnect ==
    \/ NextResume
    \/ ReconnectCall

SpecReconnect == InitReconnect /\ [][NextReconnect]_vars

\* The id, start and end of every segment.
Boundaries(chunks) ==
    [k \in 1..Len(chunks) |-> <<chunks[k].id, chunks[k].start, chunks[k].end>>]

\* The transferor of run r makes its plan in this step.
PlansStep(r) == run[r].tpc = "start" /\ run'[r].tpc # "start"

\* C29: no step changes the num_connections or the segment boundaries of a
\* record; set_connections changes no record and no handle; and a run that
\* resume_interrupted_download spawns has the record's num_connections and
\* plans the record's segments, whatever the setting is.
C29_RecordPlanFrozen ==
    [][/\ \A id \in DOMAIN history :
             /\ id \in DOMAIN history'
             /\ history'[id].num_connections = history[id].num_connections
             /\ Boundaries(history'[id].chunks) = Boundaries(history[id].chunks)
       /\ settings'.connections # settings.connections =>
             /\ history' = history
             /\ handle' = handle
             /\ downloads' = downloads
       /\ ResumedStep =>
             LET record == history[run'[nruns'].id]
             IN  /\ run'[nruns'].num_connections = record.num_connections
                 /\ run'[nruns'].existing = record.chunks
       /\ \A r \in Runs :
             (PlansStep(r) /\ run[r].existing # <<>>) =>
                 /\ Len(run'[r].plan) = history[run[r].id].num_connections
                 /\ Boundaries(run'[r].plan) = Boundaries(history[run[r].id].chunks)]_vars

\* A resumed run has made its plan from a record of two segments while the
\* setting is one connection.
C29_Witness ==
    \E r \in Runs :
        /\ run[r].existing # <<>>
        /\ run[r].spc = "transfer"
        /\ run[r].tpc = "await"
        /\ run[r].num_connections # settings.connections
        /\ Len(run[r].plan) = MaxConn

\* ----------------------------------------------------------------- SpecClear
\* clear_download_history on a ledger of two records, loaded at start-up
\* with any status, while either of them may be resumed, paused and
\* cancelled.
\* file_path.with_extension("<ext>.part"): no path a transferor writes.
PartPath(file_path) ==
    CASE file_path = "f" -> "f..part"
      [] file_path = "g" -> "g..part"
      [] OTHER -> "..part"

\* clear_download_history with no filter on the status.
clear_download_historyAll ==
    /\ history' = <<>>
    /\ temp' = [id \in DOMAIN temp \ DOMAIN history |-> temp[id]]
    /\ UNCHANGED <<calls, planner, disk, video, boot, pace, server, settings, downloads, nruns,
                   run, handle, worker, reporter, single, files, events, ghost>>
\* clear_download_history: under the ledger's write lock, the ids of the
\* Completed, Failed and Cancelled records are collected; for each the temp
\* directory and the .part file are removed, then the record; then save().
clear_download_history ==
    LET ids_to_remove ==
            {id \in DOMAIN history :
                history[id].status \in {"Completed", "Failed", "Cancelled"}}
        part_paths == {PartPath(history[id].file_path) : id \in ids_to_remove}
    IN  /\ history' = [id \in DOMAIN history \ ids_to_remove |-> history[id]]
        /\ temp' = [id \in DOMAIN temp \ ids_to_remove |-> temp[id]]
        /\ files' = [p \in DOMAIN files \ part_paths |-> files[p]]
        /\ worker' = [q \in Runs |->
              [k \in 1..Len(worker[q]) |->
                  IF /\ run[q].id \in ids_to_remove
                     /\ run[q].id \in DOMAIN temp
                     /\ worker[q][k].fd = "open"
                  THEN [worker[q][k] EXCEPT !.fd = "orphan"] ELSE worker[q][k]]]
        /\ UNCHANGED <<calls, planner, disk, video, boot, pace, server, settings, downloads,
                       nruns, run, handle, reporter, single, events, ghost>>

\* The ledgers on disk that hold both records, with nothing checkpointed.
ClearLedgers ==
    {h \in LedgersOver(LoadedIds) :
        /\ DOMAIN h = LoadedIds
        /\ \A id \in LoadedIds : total_downloaded(h[id]) = 0}

InitClear ==
    /\ InitStartup
    /\ boot.loaded \in ClearLedgers

ClearCall == boot.stage = "done" /\ clear_download_history

\* One of the loaded records is resumed.
ResumeLoaded ==
    /\ boot.stage = "done"
    /\ nruns = 0
    /\ \E id \in LoadedIds : resume_interrupted_download(id)

NextClear ==
    \/ Startup
    \/ ResumeLoaded
    \/ ClearCall
    \/ PauseCall
    \/ CancelCall
    \/ \E r \in Runs : SupervisorStep(r) \/ ChunkedStep(r)

SpecClear == InitClear /\ [][NextClear]_vars

\* C30: clear_download_history removes exactly the records that are
\* Completed, Failed or Cancelled when it is called; every other record, the
\* active map and every handle are as they were.
C30_ClearsTerminalOnly ==
    [][clear_download_history =>
          /\ DOMAIN history' =
                {id \in DOMAIN history :
                    history[id].status \in {"Pending", "Downloading", "Paused"}}
          /\ \A id \in DOMAIN history' : history'[id] = history[id]
          /\ downloads' = downloads
          /\ handle' = handle]_vars

\* Of the two loaded records one is gone and the other, an active job that
\* is not in a terminal status, is still there.
C30_Witness ==
    /\ boot.stage = "done"
    /\ DOMAIN boot.loaded = LoadedIds
    /\ \E id \in LoadedIds :
          /\ DOMAIN history = {id}
          /\ history[id].status \in {"Downloading", "Paused"}
          /\ id \in DOMAIN downloads

\* ---------------------------------------------------------------- C31..C40
\* The bytes in the segment files of run r's job.
Written(r) ==
    LET dir == DirOf(run[r].id)
        ids == DOMAIN dir
    IN  SumSeq([j \in 1..Len(handle[r].chunk_downloaded) |->
                   IF (j - 1) \in ids THEN Len(dir[j - 1]) ELSE 0])

\* The step leaves run r the run it was.
SameRun(r) ==
    /\ run[r].kind = "chunked"
    /\ run'[r].id = run[r].id
    /\ Len(handle'[r].chunk_downloaded) = Len(handle[r].chunk_downloaded)

\* C31: within one run no segment counter and no total ever decreases, and
\* the total the reporter emits (the sum of the counters as it reads them)
\* is no more than the bytes the workers have written to the segment files.
C31_ProgressMonotone ==
    [][\A r \in Runs :
          SameRun(r) =>
              /\ \A j \in 1..Len(handle[r].chunk_downloaded) :
                    handle'[r].chunk_downloaded[j] >= handle[r].chunk_downloaded[j]
              /\ SumSeq(handle'[r].chunk_downloaded) >= SumSeq(handle[r].chunk_downloaded)
              /\ (ReporterTick(r) /\ ~handle[r].cancelled) =>
                    SumSeq(handle[r].chunk_downloaded) <= Written(r)]_vars

\* The reporter has emitted a total that covers the whole resource and has
\* left its loop for that reason.
C31_Witness ==
    \E r \in Runs :
        /\ run[r].kind = "chunked"
        /\ reporter[r].pc = "exited"
        /\ ~handle[r].cancelled
        /\ events[r].progress = "downloading"
        /\ SumSeq(handle[r].chunk_downloaded) >= run[r].total_size

\* One job run on its own, with the reporter's iteration interleaved with
\* the other tasks as the threads of the runtime allow.
NextThreads ==
    \/ Next
    \/ \E r \in Runs : ReporterWake(r)
    \/ \E r \in Runs : ReporterEmit(r)

SpecThreads == Init /\ [][NextThreads]_vars

\* The transferor of run r has emitted its last event.
FinalEmitted(r) == events[r].cancelled > 0 \/ events[r].complete > 0

\* C32: once the transferor of a run has emitted the "cancelled"
\* download-progress event or the download-complete event, the reporter of
\* that run emits no download-progress event and writes no checkpoint.
C32_ReporterSilentAfterFinal ==
    [][\A r \in Runs :
          FinalEmitted(r) =>
              /\ ~ReporterEmit(r)
              /\ ~(ReporterTick(r) /\ ~handle[r].cancelled)]_vars

\* One job run on its own; pause_download and resume_download may be
\* overtaken between their two lock scopes.
ControlOps == {"pause_download", "resume_download"}

InitRace ==
    /\ Init
    /\ server.mode = "range"

NextRace ==
    \/ StartCall
    \/ CancelCall
    \/ TaskStep
    \/ \E op \in ControlOps : \E id \in DOMAIN downloads : ControlLookup(op, id)
    \/ \E c \in calls.pending : ControlLedger(c)

SpecRace == InitRace /\ [][NextRace]_vars

\* C33: a record that is Completed, Cancelled or Failed does not become
\* Paused or Downloading (no resume_interrupted_download is called here).
C33_TerminalNotOverwritten ==
    [][\A id \in DOMAIN history :
          history[id].status \in Terminal =>
              /\ id \in DOMAIN history'
              /\ history'[id].status \notin {"Paused", "Downloading"}]_vars

\* C34: when the supervisor of a run has written the terminal status, no
\* segment worker of that run is still running.
C34_NoWorkerAfterTerminal ==
    \A r \in Runs :
        (run[r].kind = "chunked" /\ run[r].spc = "done") =>
            \A k \in 1..Len(worker[r]) : ~LiveWorker(worker[r][k])

\* C35: a job whose flag cancel_download has set (the call returned Ok)
\* does not resolve with status Completed.
C35_CancelledNeverCompleted ==
    \A r \in Runs :
        (run[r].spc # "none" /\ handle[r].cancelled) => StatusOf(r) # "Completed"

\* ---------------------------------------------------------------- SpecRemove
\* remove_from_history: under the ledger's write lock, the temp directory
\* and the .part file of the record are removed when the record exists,
\* then the record; then save().  Neither the status nor the active map is
\* looked at.
remove_from_history(id) ==
    LET known == id \in DOMAIN history
        part_paths == IF known THEN {PartPath(history[id].file_path)} ELSE {}
    IN  /\ history' = [i \in DOMAIN history \ {id} |-> history[i]]
        /\ temp' = IF known THEN [i \in DOMAIN temp \ {id} |-> temp[i]] ELSE temp
        /\ files' = [p \in DOMAIN files \ part_paths |-> files[p]]
        /\ worker' = [q \in Runs |->
              [k \in 1..Len(worker[q]) |->
                  IF /\ known
                     /\ run[q].id = id
                     /\ id \in DOMAIN temp
                     /\ worker[q][k].fd = "open"
                  THEN [worker[q][k] EXCEPT !.fd = "orphan"] ELSE worker[q][k]]]
        /\ UNCHANGED <<calls, planner, disk, video, boot, pace, server, settings, downloads,
                       nruns, run, handle, reporter, single, events, ghost>>

RemoveCall == \E id \in DOMAIN history : remove_from_history(id)

\* One job from a server that honours Range requests, with
\* remove_from_history called at any time; no second job is started.
InitRemove ==
    /\ Init
    /\ server.mode = "range"

NextRemove ==
    \/ nruns = 0 /\ StartCall
    \/ CancelCall
    \/ PauseCall
    \/ TaskStep
    \/ RemoveCall

SpecRemove == InitRemove /\ [][NextRemove]_vars

\* C36: a job that has a handle in the active map has its record in the
\* ledger, and remove_from_history on it removes neither the record nor the
\* temp directory.
C36_ActiveJobKept ==
    [][\A id \in DOMAIN downloads :
          /\ id \in DOMAIN history
          /\ remove_from_history(id) =>
                /\ id \in DOMAIN history'
                /\ id \in DOMAIN temp => id \in DOMAIN temp']_vars

\* ----------------------------------------------------------------- SpecDelay
\* The pacing of download_chunk, lines 287-307, for one worker of a job with
\* num_chunks segments under speed limit L, 0 included, against the clock
\* of SpecPace.  The limits are such that every quotient is a whole number
\* of ticks.
DelayLimits == {0, 1, 2, PaceLimit}

\* (expected_time - elapsed) * 1000.0 as u64, in ticks.  With chunk_limit 0
\* the f64 quotient throttle_bytes / 0.0 is +inf (NaN for 0 / 0.0, and a
\* comparison with NaN is false), and the cast of +inf saturates at
\* u64::MAX milliseconds.
SaturatedDelay == ((U64Modulus - 1) * TicksPerSecond) \div 1000

DelayF64(throttle_bytes, chunk_limit, elapsed) ==
    IF chunk_limit = 0
    THEN IF throttle_bytes = 0 THEN 0 ELSE SaturatedDelay
    ELSE Delay(throttle_bytes, chunk_limit, elapsed)

InitDelay ==
    /\ planner = [stage |-> "off"]
    /\ LifeInit
    /\ server.mode = "range"
    /\ settings.connections = 1
    /\ pace \in [stage : {"delay"}, speed_limit : DelayLimits, num_chunks : 1..MaxConn,
                 now : {0}, throttle_start : {0}, throttle_bytes : {0}, wake : {0},
                 received : {0}]

\* One turn of the loop for a buffer of PaceBuf bytes: lines 287-307.
DelayReceive ==
    /\ pace.stage = "delay"
    /\ pace.now >= pace.wake
    /\ IF pace.speed_limit > 0
       THEN LET throttle_bytes == pace.throttle_bytes + PaceBuf
                chunk_limit == pace.speed_limit \div pace.num_chunks
                elapsed == pace.now - pace.throttle_start
                awake == pace.now + DelayF64(throttle_bytes, chunk_limit, elapsed)
                reset == awake - pace.throttle_start >= TicksPerSecond
            IN  pace' = [pace EXCEPT
                   !.wake = awake,
                   !.throttle_start = IF reset THEN awake ELSE @,
                   !.throttle_bytes = IF reset THEN 0 ELSE throttle_bytes,
                   !.received = Min(@ + PaceBuf, MaxTicks)]
       ELSE pace' = [pace EXCEPT !.received = Min(@ + PaceBuf, MaxTicks)]
    /\ UNCHANGED <<calls, planner, disk, video, boot, server, settings, history, downloads,
                   nruns, run, handle, worker, reporter, single, temp, files, events, ghost>>

DelayTick ==
    /\ pace.stage = "delay"
    /\ pace.now < MaxTicks
    /\ pace' = [pace EXCEPT !.now = @ + 1]
    /\ UNCHANGED <<calls, planner, disk, video, boot, server, settings, history, downloads,
                   nruns, run, handle, worker, reporter, single, temp, files, events, ghost>>

NextDelay == DelayReceive \/ DelayTick

SpecDelay == InitDelay /\ [][NextDelay]_vars

\* C37: under every speed limit L > 0 the worker's sleep ends within the
\* time one buffer takes at one byte per second, the slowest rate a
\* positive per-segment limit stands for, so the worker gets to its next
\* buffer; under L = 0 the worker never sleeps.
C37_DelayFinite ==
    /\ pace.speed_limit > 0 => pace.wake - pace.now <= PaceBuf * TicksPerSecond
    /\ pace.speed_limit = 0 => pace.wake <= pace.now

\* The same for the limits that leave every segment at least one byte per
\* second.
DelayFiniteFromOneByte ==
    pace.speed_limit >= pace.num_chunks => C37_DelayFinite

\* The outcome events of run r.
OutcomeEvents(r) == events[r].complete + events[r].error + events[r].cancelled

\* C38 (its safety part): a job whose supervisor has ended has a terminal
\* status, no handle in the active map, and has produced exactly one of
\* download-complete, download-error and the "cancelled" download-progress.
\* Stated for URLs that do not contain the word "cancelled" (C22).
C38_OneOutcome ==
    \A r \in Runs :
        (Finished(r) /\ run[r].url = "plain") =>
            /\ StatusOf(r) \in Terminal
            /\ run[r].id \notin DOMAIN downloads
            /\ OutcomeEvents(r) = 1

\* ------------------------------------------------------------------ SpecBoot
\* The start-up task has read the ledger file and has not yet installed what
\* it read (lib.rs, between lines 1113 and 1131), and the window is up:
\* start_download can be called before the ledger is installed.
EarlyStartCall == boot.stage = "load" /\ StartCall

NextBoot == Startup \/ EarlyStartCall

SpecBoot == InitStartup /\ [][NextBoot]_vars

\* C39: when the start-up task installs the ledger it loaded, every record
\* that is in the in-memory ledger is still there afterwards.
C39_StartupKeepsRecords ==
    [][Startup => \A id \in DOMAIN history : id \in DOMAIN history']_vars

\* ----------------------------------------------------------------- SpecVideo
\* One video download: start_video_download, the task it spawns around
\* download_video, the extractor subprocess, and cancel_video_download.
\*   pc        where the spawned task is
\*   cancelled handle.cancelled
\*   process   handle.process (VideoDownloadHandle::new sets None; nothing
\*             ever stores the child in it)
\*   child     the subprocess download_video owns
\*   unread    lines the subprocess has printed and the task has not read
\*   printed   lines printed so far
\*   in_map    the handle is in state.video_downloads
\*   status    the status of the record
\*   result    what download_video returned
\*   cancel_ok cancel_video_download has returned Ok
\*   cancel_live  ... and the subprocess was running and the task was in its
\*             loop when it did
MaxLines == 3

VideoId == "video_0"

InitVideo ==
    /\ planner = [stage |-> "off"]
    /\ pace = [stage |-> "off"]
    /\ calls = NoCalls
    /\ boot = Booted
    /\ disk = NoDisk
    /\ server \in [mode : {"range", "full"}, faults : {MaxFaults}]
    /\ settings \in [connections : 1..MaxConn, speed_limit : {0}]
    /\ history = <<>>
    /\ downloads = <<>>
    /\ nruns = 0
    /\ run = [r \in Runs |-> NoRun]
    /\ handle = [r \in Runs |-> NoHandle]
    /\ worker = [r \in Runs |-> <<>>]
    /\ reporter = [r \in Runs |-> NoReporter]
    /\ single = [r \in Runs |-> NoSingle]
    /\ temp = <<>>
    /\ files = <<>>
    /\ events = [r \in Runs |-> NoEvents]
    /\ ghost = [r \in Runs |-> NoGhost]
    /\ video = [stage |-> "on", pc |-> "none", cancelled |-> FALSE, process |-> "None",
                child |-> "none", unread |-> 0, printed |-> 0, in_map |-> FALSE,
                status |-> "none", result |-> "none", video_error |-> 0, complete |-> 0,
                cancel_ok |-> FALSE, cancel_live |-> FALSE]

VideoUnchanged ==
    UNCHANGED <<calls, planner, disk, boot, pace, server, settings, history, downloads, nruns,
                run, handle, worker, reporter, single, temp, files, events, ghost>>

\* start_video_download: the record, the handle, the registration, the spawn.
start_video_download ==
    /\ video.pc = "none"
    /\ video' = [video EXCEPT !.status = "Pending", !.in_map = TRUE, !.pc = "begin"]
    /\ VideoUnchanged

\* download_video up to its loop (video.rs 272-345): the extractor is
\* missing or cannot be spawned, or it runs and the record is Downloading.
VideoBegin ==
    /\ video.pc = "begin"
    /\ \E spawned \in BOOLEAN :
          video' = IF spawned
                   THEN [video EXCEPT !.child = "running", !.status = "Downloading",
                                      !.pc = "lines"]
                   ELSE [video EXCEPT !.result = "spawn_failed", !.pc = "returned"]
    /\ VideoUnchanged

\* The subprocess prints a line.
ChildPrints ==
    /\ video.child = "running"
    /\ video.printed < MaxLines
    /\ video' = [video EXCEPT !.unread = @ + 1, !.printed = @ + 1]
    /\ VideoUnchanged

\* The subprocess ends by itself, with or without success.
ChildExits ==
    /\ video.child = "running"
    /\ \E success \in BOOLEAN :
          video' = [video EXCEPT !.child = IF success THEN "exited_ok" ELSE "exited_failed"]
    /\ VideoUnchanged

\* One turn of the loop at video.rs 349-461: a line is read and the flag is
\* looked at; or the output has ended and the loop is left.
VideoNextLine ==
    /\ video.pc = "lines"
    /\ IF video.unread > 0
       THEN IF video.cancelled
            THEN video' = [video EXCEPT
                     !.child = IF @ = "running" THEN "killed" ELSE @,
                     !.unread = 0,
                     !.status = "Cancelled",
                     !.result = "cancelled",
                     !.pc = "returned"]
            ELSE video' = [video EXCEPT !.unread = @ - 1]
       ELSE /\ video.child # "running"
            /\ video' = [video EXCEPT !.pc = "wait"]
    /\ VideoUnchanged

\* video.rs 464-521: child.wait(), then Failed and Err("yt-dlp failed: ..")
\* or Completed, download-complete and Ok.
VideoWait ==
    /\ video.pc = "wait"
    /\ video' = IF video.child = "exited_ok"
                THEN [video EXCEPT !.status = "Completed", !.complete = @ + 1,
                                   !.result = "ok", !.pc = "returned"]
                ELSE [video EXCEPT !.status = "Failed", !.result = "failed",
                                   !.pc = "returned"]
    /\ VideoUnchanged

\* The end of the spawned task (commands.rs 716-728): the handle leaves the
\* map; video-error for an Err whose text has no "cancelled" in it.
VideoFinish ==
    /\ video.pc = "returned"
    /\ video' = [video EXCEPT
           !.in_map = FALSE,
           !.video_error = IF video.result \in {"spawn_failed", "failed"} THEN @ + 1 ELSE @,
           !.pc = "done"]
    /\ VideoUnchanged

\* cancel_video_download: the flag is set; the child in handle.process, if
\* there is one, is killed.
cancel_video_download(id) ==
    IF ~(video.in_map /\ id = VideoId) THEN Rejected("cancel_video_download", id)
    ELSE
      /\ video' = [video EXCEPT
             !.cancelled = TRUE,
             !.child = IF video.process # "None" /\ @ = "running" THEN "killed" ELSE @,
             !.cancel_ok = TRUE,
             !.cancel_live = @ \/ (video.child = "running" /\ video.pc = "lines")]
      /\ VideoUnchanged

CancelVideoCall == video.pc # "none" /\ cancel_video_download(VideoId)

NextVideo ==
    \/ start_video_download
    \/ VideoBegin
    \/ ChildPrints
    \/ ChildExits
    \/ VideoNextLine
    \/ VideoWait
    \/ VideoFinish
    \/ CancelVideoCall

SpecVideo == InitVideo /\ [][NextVideo]_vars

\* C40: a video download whose cancel_video_download returned Ok while the
\* subprocess was running ends with record status Cancelled and without a
\* video-error event.
C40_VideoCancelEnds ==
    (video.stage = "on" /\ video.cancel_live /\ video.pc = "done") =>
        /\ video.status = "Cancelled"
        /\ video.video_error = 0

\* The same for the runs in which the subprocess prints a line after the
\* flag was set and before the task leaves its loop.
VideoCancelSeenAtLine ==
    (video.stage = "on" /\ video.cancel_live /\ video.pc = "done"
        /\ video.result = "cancelled") =>
        /\ video.status = "Cancelled"
        /\ video.video_error = 0

====
